---- MODULE Spec2Model ----
(***************************************************************************)
(* The flow policy of rasa/core/policies/flow_policy.py as a state machine *)
(* over one conversation: the tracker (persisted flow stack, slots, latest *)
(* message and action, active loop), one prediction cycle of FlowPolicy    *)
(* (predict_action_probabilities -> advance_flows -> _select_next_action,  *)
(* one loop iteration per step) and the caller that applies the returned   *)
(* prediction to the tracker.                                              *)
(***************************************************************************)
EXTENDS Integers, Sequences, FiniteSets, TLC

(***************************************************************************)
(* Bounds of the model.                                                    *)
(***************************************************************************)
\* the caller starts a flow only while fewer than MaxDepth frames are stacked
MaxDepth == 3

\* the longest list of outgoing links the resolver is given on its own
MaxLinks == 3

(***************************************************************************)
(* Names and values.                                                       *)
(***************************************************************************)
\* Python's None for ids, names and optional objects
NULL == "NULL"
START_STEP == "__start__"
END_STEP == "__end__"
ACTION_LISTEN_NAME == "action_listen"
ACTION_FLOW_CONTINUE_INERRUPTED_NAME == "action_flow_continue_interrupted"
FLOW_PREFIX == "flow_"
FLOW_STACK_SLOT == "flow_stack"
QUESTION_PREFIX == "question_"
SENSITIVE_ACTION == "utter_sensitive_topic"

\* slot values: None, or a text given as its sequence of decimal digits
VNone == [k |-> "none"]
VStr(digits) == [k |-> "str", d |-> digits]

\* StackFrameType members and their string values
StackFrameTypeValue(typ) ==
    CASE typ = "INTERRUPT" -> "interrupt"
      [] typ = "LINK" -> "link"
      [] typ = "REGULAR" -> "regular"

\* StackFrameType.from_str; "ERROR" stands for the NotImplementedError raised
StackFrameType_from_str(typ) ==
    CASE typ = NULL -> "REGULAR"
      [] typ = "interrupt" -> "INTERRUPT"
      [] typ = "link" -> "LINK"
      [] typ = "regular" -> "REGULAR"
      [] OTHER -> "ERROR"

(***************************************************************************)
(* The flow graph model: steps, links and the flow library.                *)
(***************************************************************************)
StaticFlowLink(target) == [type |-> "static", slot |-> NULL, op |-> NULL, k |-> 0, target |-> target]
\* an if-link whose condition compares a slot with a number
IfFlowLink(slot, op, k, target) == [type |-> "if", slot |-> slot, op |-> op, k |-> k, target |-> target]
ElseFlowLink(target) == [type |-> "else", slot |-> NULL, op |-> NULL, k |-> 0, target |-> target]

NoTrigger == [intent |-> NULL, entities |-> {}]

BaseStep(id, type, links) ==
    [id |-> id, type |-> type, links |-> links, question |-> NULL,
     skip_if_filled |-> FALSE, scope |-> NULL, action |-> NULL, link |-> NULL,
     slots |-> <<>>, trigger |-> NoTrigger]

QuestionFlowStep(id, question, skip, scope, links) ==
    [BaseStep(id, "question", links) EXCEPT !.question = question,
                                            !.skip_if_filled = skip,
                                            !.scope = scope]
ActionFlowStep(id, action, links) == [BaseStep(id, "action", links) EXCEPT !.action = action]
LinkFlowStep(id, link, links) == [BaseStep(id, "link", links) EXCEPT !.link = link]
SetSlotsFlowStep(id, slots, links) == [BaseStep(id, "set_slots", links) EXCEPT !.slots = slots]
UserMessageStep(id, intent, entities, links) ==
    [BaseStep(id, "user_message", links) EXCEPT !.trigger = [intent |-> intent, entities |-> entities]]
EndFlowStep == BaseStep(END_STEP, "end", <<>>)
\* None where a step is expected
NoStep == BaseStep(NULL, "none", <<>>)

Flow(id, name, steps) == [id |-> id, name |-> name, steps |-> steps]
\* None where a flow is expected
NoFlow == Flow(NULL, NULL, <<>>)

\* the flows of the assistant, in enumeration order
MainFlow ==
    Flow("main", "Main flow",
         << UserMessageStep(START_STEP, "i_main", {}, <<StaticFlowLink("q_age")>>),
            QuestionFlowStep("q_age", "age", FALSE, "flow",
                             <<IfFlowLink("age", "<", 18, "minor"), ElseFlowLink("sub")>>),
            ActionFlowStep("minor", "a_minor", <<>>),
            LinkFlowStep("sub", "child", <<>>) >>)

\* a flow that is only linked to: its first step is no trigger
ChildFlow ==
    Flow("child", "Child flow",
         << SetSlotsFlowStep(START_STEP, <<>>, <<StaticFlowLink("c_set")>>),
            SetSlotsFlowStep("c_set", <<[key |-> "age", value |-> VStr(<<3, 0>>)],
                                        [key |-> "age", value |-> VNone]>>,
                             <<IfFlowLink("age", ">", 20, "c_old"), ElseFlowLink(END_STEP)>>),
            ActionFlowStep("c_old", "a_old", <<>>) >>)

\* a flow without steps
HollowFlow == Flow("hollow", "Hollow flow", <<>>)

\* a flow with authoring errors: links that do not cover every case, a link
\* to a step that does not exist, a link to a flow without steps and an
\* action step without a name
BrokenFlow ==
    Flow("broken", "Broken flow",
         << UserMessageStep(START_STEP, "i_intr", {"e_bad"},
                            <<IfFlowLink("age", "<", 10, "b_nowhere"),
                              IfFlowLink("age", "<", 18, "b_empty"),
                              IfFlowLink("age", ">", 20, "b_link"),
                              ElseFlowLink("b_ghost")>>),
            LinkFlowStep("b_link", "hollow", <<>>),
            LinkFlowStep("b_ghost", "ghost", <<>>),
            ActionFlowStep("b_empty", "", <<>>) >>)

IntrFlow ==
    Flow("intr", "Interrupting flow",
         << UserMessageStep(START_STEP, "i_intr", {}, <<StaticFlowLink("i_q")>>),
            QuestionFlowStep("i_q", "age", TRUE, "global", <<StaticFlowLink("i_act")>>),
            ActionFlowStep("i_act", "a_intr", <<>>) >>)

underlying_flows == <<MainFlow, ChildFlow, HollowFlow, BrokenFlow, IntrFlow>>

\* the slots of the domain with their initial values
SlotNames == {"age"}
initial_value == [s \in SlotNames |-> VNone]

\* what the environment can supply
Intents == {"i_main", "i_intr", "i_other"}
Messages ==
    {[intent |-> i, entities |-> {}] : i \in Intents}
        \cup {[intent |-> "i_intr", entities |-> {"e_bad"}]}
NoMessage == [intent |-> NULL, entities |-> {}]
SlotFills ==
    {[key |-> "age", value |-> VStr(<<5>>)],
     [key |-> "age", value |-> VStr(<<1, 5>>)],
     [key |-> "age", value |-> VStr(<<3, 0>>)]}

(***************************************************************************)
(* FlowsList and Flow lookups.                                             *)
(***************************************************************************)
RECURSIVE FindFlow(_, _, _)
FindFlow(flows, flow_id, i) ==
    IF i > Len(flows) THEN NoFlow
    ELSE IF flows[i].id = flow_id THEN flows[i]
    ELSE FindFlow(flows, flow_id, i + 1)

\* FlowsList.flow_by_id: the flow with that id, or None
flow_by_id(flow_id) == FindFlow(underlying_flows, flow_id, 1)

RECURSIVE FindStep(_, _, _)
FindStep(steps, step_id, i) ==
    IF i > Len(steps) THEN NoStep
    ELSE IF steps[i].id = step_id THEN steps[i]
    ELSE FindStep(steps, step_id, i + 1)

\* Flow.step_for_id: the step with that id, the implicit end step, or None
step_for_id(flow, step_id) ==
    IF step_id = END_STEP THEN EndFlowStep ELSE FindStep(flow.steps, step_id, 1)

\* FlowsList.step_by_id: the step, or an error when the flow or the step is missing
step_by_id(step_id, flow_id) ==
    LET flow == flow_by_id(flow_id)
        step == IF flow = NoFlow THEN NoStep ELSE step_for_id(flow, step_id)
    IN  [err |-> step = NoStep, step |-> step]

\* Flow.first_step_in_flow: the first authored step, or None
first_step_in_flow(flow) == IF Len(flow.steps) = 0 THEN NoStep ELSE flow.steps[1]

\* UserMessageStep.is_triggered: the intent is the declared one and every
\* declared entity was extracted
is_triggered(step, intent, entities) ==
    /\ step.trigger.intent # NULL
    /\ step.trigger.intent = intent
    /\ step.trigger.entities \subseteq entities

(***************************************************************************)
(* FlowStack and FlowStackFrame.                                           *)
(***************************************************************************)
FlowStackFrame(flow_id, step_id, frame_type) ==
    [flow_id |-> flow_id, step_id |-> step_id, frame_type |-> frame_type]

FlowStackFrame_from_dict(data) ==
    FlowStackFrame(data.flow_id, data.step_id, StackFrameType_from_str(data.frame_type))

FlowStackFrame_as_dict(frame) ==
    [flow_id |-> frame.flow_id, step_id |-> frame.step_id,
     frame_type |-> StackFrameTypeValue(frame.frame_type)]

FlowStack_from_dict(data) == [i \in DOMAIN data |-> FlowStackFrame_from_dict(data[i])]

as_dict(frames) == [i \in DOMAIN frames |-> FlowStackFrame_as_dict(frames[i])]

is_empty(frames) == Len(frames) = 0

\* mutant of push: the frame is put beneath the frames of the stack
push_beneath(frames, frame) == <<frame>> \o frames

push(frames, frame) == Append(frames, frame)

\* the stack after pop(); pop() of an empty stack raises
pop(frames) == SubSeq(frames, 1, Len(frames) - 1)

\* None where a frame is expected
NoFrame == FlowStackFrame(NULL, NULL, NULL)

\* the topmost frame, or None
top(frames) == IF is_empty(frames) THEN NoFrame ELSE frames[Len(frames)]

\* mutant of FlowStack_pop: popping an empty stack returns None
FlowStack_pop_lenient(frames) ==
    [err |-> FALSE, frames |-> pop(frames), frame |-> top(frames)]

\* FlowStack.pop as a call: list.pop raises IndexError on an empty list,
\* and returns the frame it removed otherwise
FlowStack_pop(frames) ==
    IF is_empty(frames) THEN [err |-> TRUE, frames |-> frames, frame |-> NoFrame]
    ELSE [err |-> FALSE, frames |-> pop(frames), frame |-> frames[Len(frames)]]

\* mutant of advance_top_flow: the step pointer of the top frame stays
advance_top_flow_stays(frames, updated_id) == frames

advance_top_flow(frames, updated_id) ==
    IF is_empty(frames) THEN frames
    ELSE [frames EXCEPT ![Len(frames)].step_id = updated_id]

top_flow(frames) ==
    IF is_empty(frames) THEN NoFlow ELSE flow_by_id(frames[Len(frames)].flow_id)

\* mutant of top_flow_step: a frame at an unknown step counts as ended
top_flow_step_or_end(frames) ==
    IF is_empty(frames) \/ top_flow(frames) = NoFlow THEN NoStep
    ELSE IF step_for_id(top_flow(frames), frames[Len(frames)].step_id) = NoStep
         THEN EndFlowStep
    ELSE step_for_id(top_flow(frames), frames[Len(frames)].step_id)

top_flow_step(frames) ==
    IF is_empty(frames) \/ top_flow(frames) = NoFlow THEN NoStep
    ELSE step_for_id(top_flow(frames), frames[Len(frames)].step_id)

(***************************************************************************)
(* The predicate evaluator.                                                *)
(***************************************************************************)
RECURSIVE DigitsValue(_)
DigitsValue(digits) ==
    IF Len(digits) = 0 THEN 0
    ELSE 10 * DigitsValue(SubSeq(digits, 1, Len(digits) - 1)) + digits[Len(digits)]

\* get_value of is_condition_satisfied: None stays None, a numeric text
\* becomes a number, any other text stays a text
get_value(value) ==
    IF value.k = "none" THEN [k |-> "none", n |-> 0]
    ELSE IF Len(value.d) > 0 THEN [k |-> "num", n |-> DigitsValue(value.d)]
    ELSE [k |-> "text", n |-> 0]

\* the predicate "slot op k" over the slots of the domain
is_condition_satisfied(link, slot_values) ==
    LET v == IF link.slot \in DOMAIN slot_values
             THEN get_value(slot_values[link.slot])
             ELSE [k |-> "none", n |-> 0]
    IN  /\ v.k = "num"
        /\ CASE link.op = "<" -> v.n < link.k
             [] link.op = ">" -> v.n > link.k
             [] OTHER -> FALSE

(***************************************************************************)
(* The step resolver.                                                      *)
(***************************************************************************)
\* mutant of FirstIfTarget: the last if-link whose condition holds wins
FirstIfTarget_last(links, slot_values, i) ==
    LET sat == {j \in i..Len(links) :
                   /\ links[j].type = "if"
                   /\ links[j].slot # NULL
                   /\ is_condition_satisfied(links[j], slot_values)}
    IN  IF sat = {} THEN NULL
        ELSE links[CHOOSE j \in sat : \A k \in sat : k <= j].target

RECURSIVE FirstIfTarget(_, _, _)
\* the target of the first if-link, from i on, whose condition holds, or None
FirstIfTarget(links, slot_values, i) ==
    IF i > Len(links) THEN NULL
    ELSE IF links[i].type = "if" /\ links[i].slot # NULL
            /\ is_condition_satisfied(links[i], slot_values)
         THEN links[i].target
    ELSE FirstIfTarget(links, slot_values, i + 1)

RECURSIVE FirstElseTarget(_, _)
FirstElseTarget(links, i) ==
    IF i > Len(links) THEN NULL
    ELSE IF links[i].type = "else" THEN links[i].target
    ELSE FirstElseTarget(links, i + 1)

\* mutant of select_next_step_id: links that select nothing fall through to
\* the implicit end
select_next_step_id_falls_through(current, slot_values) ==
    LET links == current.links
        if_target == FirstIfTarget(links, slot_values, 1)
        else_target == FirstElseTarget(links, 1)
    IN  IF Len(links) = 1 /\ links[1].type = "static"
        THEN [err |-> FALSE, id |-> links[1].target]
        ELSE IF if_target # NULL THEN [err |-> FALSE, id |-> if_target]
        ELSE IF else_target # NULL THEN [err |-> FALSE, id |-> else_target]
        ELSE IF current.id # END_STEP THEN [err |-> FALSE, id |-> END_STEP]
        ELSE [err |-> FALSE, id |-> NULL]

\* mutant of select_next_step_id: an else-link is taken before the if-links
\* are looked at
select_next_step_id_else_first(current, slot_values) ==
    LET links == current.links
        if_target == FirstIfTarget(links, slot_values, 1)
        else_target == FirstElseTarget(links, 1)
    IN  IF Len(links) = 1 /\ links[1].type = "static"
        THEN [err |-> FALSE, id |-> links[1].target]
        ELSE IF else_target # NULL THEN [err |-> FALSE, id |-> else_target]
        ELSE IF if_target # NULL THEN [err |-> FALSE, id |-> if_target]
        ELSE IF Len(links) > 0 THEN [err |-> TRUE, id |-> NULL]
        ELSE IF current.id # END_STEP THEN [err |-> FALSE, id |-> END_STEP]
        ELSE [err |-> FALSE, id |-> NULL]

\* mutant of select_next_step_id: a single static link is not followed
select_next_step_id_no_static(current, slot_values) ==
    LET links == current.links
        if_target == FirstIfTarget(links, slot_values, 1)
        else_target == FirstElseTarget(links, 1)
    IN  IF if_target # NULL THEN [err |-> FALSE, id |-> if_target]
        ELSE IF else_target # NULL THEN [err |-> FALSE, id |-> else_target]
        ELSE IF Len(links) > 0 THEN [err |-> TRUE, id |-> NULL]
        ELSE IF current.id # END_STEP THEN [err |-> FALSE, id |-> END_STEP]
        ELSE [err |-> FALSE, id |-> NULL]

\* mutant of select_next_step_id: a step without links has no next step
select_next_step_id_no_implicit_end(current, slot_values) ==
    LET links == current.links
        if_target == FirstIfTarget(links, slot_values, 1)
        else_target == FirstElseTarget(links, 1)
    IN  IF Len(links) = 1 /\ links[1].type = "static"
        THEN [err |-> FALSE, id |-> links[1].target]
        ELSE IF if_target # NULL THEN [err |-> FALSE, id |-> if_target]
        ELSE IF else_target # NULL THEN [err |-> FALSE, id |-> else_target]
        ELSE IF Len(links) > 0 THEN [err |-> TRUE, id |-> NULL]
        ELSE [err |-> FALSE, id |-> NULL]

\* _select_next_step_id: [err, id]; id is None when there is no next step
select_next_step_id(current, slot_values) ==
    LET links == current.links
        if_target == FirstIfTarget(links, slot_values, 1)
        else_target == FirstElseTarget(links, 1)
    IN  IF Len(links) = 1 /\ links[1].type = "static"
        THEN [err |-> FALSE, id |-> links[1].target]
        ELSE IF if_target # NULL THEN [err |-> FALSE, id |-> if_target]
        ELSE IF else_target # NULL THEN [err |-> FALSE, id |-> else_target]
        ELSE IF Len(links) > 0 THEN [err |-> TRUE, id |-> NULL]
        ELSE IF current.id # END_STEP THEN [err |-> FALSE, id |-> END_STEP]
        ELSE [err |-> FALSE, id |-> NULL]

\* mutant of select_next_step: an id that is not a step of the flow counts as
\* "no next step"
select_next_step_missing_is_none(slot_values, current_step, flow_id) ==
    LET next == select_next_step_id(current_step, slot_values)
    IN  IF next.err THEN [err |-> TRUE, step |-> NoStep]
        ELSE IF next.id = NULL THEN [err |-> FALSE, step |-> NoStep]
        ELSE [err |-> FALSE, step |-> step_by_id(next.id, flow_id).step]

\* _select_next_step: [err, step]; step is None when there is no next step
select_next_step(slot_values, current_step, flow_id) ==
    LET next == select_next_step_id(current_step, slot_values)
    IN  IF next.err THEN [err |-> TRUE, step |-> NoStep]
        ELSE IF next.id = NULL THEN [err |-> FALSE, step |-> NoStep]
        ELSE step_by_id(next.id, flow_id)

(***************************************************************************)
(* Events and predictions.                                                 *)
(***************************************************************************)
SlotSet(key, value) == [type |-> "slot", key |-> key, value |-> value]
\* SlotSet(FLOW_STACK_SLOT, stack.as_dict())
StackSlotSet(dict) == [type |-> "stack", key |-> FLOW_STACK_SLOT, stack |-> dict]
\* ActiveLoop(None)
ActiveLoopNone == [type |-> "active_loop", key |-> NULL]

NoMetadata == [present |-> FALSE, flow_name |-> NULL]
FlowNameMetadata(name) == [present |-> TRUE, flow_name |-> name]

\* ActionPrediction; events None and [] are both the empty sequence
ActionPrediction(action_name, score, metadata, events) ==
    [action_name |-> action_name, score |-> score, metadata |-> metadata, events |-> events]

\* Python truthiness of an optional name
Truthy(name) == name # NULL /\ name # ""

(***************************************************************************)
(* The step executor.                                                      *)
(***************************************************************************)
RECURSIVE ResetEvents(_, _)
ResetEvents(steps, i) ==
    IF i > Len(steps) THEN <<>>
    ELSE IF steps[i].type = "question" /\ steps[i].scope = "flow"
         THEN <<SlotSet(steps[i].question,
                        IF steps[i].question \in SlotNames
                        THEN initial_value[steps[i].question] ELSE VNone)>>
                  \o ResetEvents(steps, i + 1)
    ELSE ResetEvents(steps, i + 1)

\* _reset_scoped_slots: one reset event per question of the flow scoped to it
reset_scoped_slots(current_flow) == ResetEvents(current_flow.steps, 1)

\* mutant of SlotSetEvents: the declared pairs are emitted last to first
SlotSetEvents_reversed(pairs, i) ==
    [j \in 1..(Len(pairs) - i + 1) |->
        SlotSet(pairs[Len(pairs) - j + 1].key, pairs[Len(pairs) - j + 1].value)]

RECURSIVE SlotSetEvents(_, _)
SlotSetEvents(pairs, i) ==
    IF i > Len(pairs) THEN <<>>
    ELSE <<SlotSet(pairs[i].key, pairs[i].value)>> \o SlotSetEvents(pairs, i + 1)

\* the result of _run_step: whether it raised, its prediction and the stack after it
StepResult(err, prediction, frames) == [err |-> err, prediction |-> prediction, frames |-> frames]
NoAction(events) == ActionPrediction(NULL, 0, NoMetadata, events)

\* mutant of run_question_step: the question never resets its slot
run_question_step_keeps_value(step, frames, slot_values) ==
    IF step.question \notin SlotNames
    THEN StepResult(TRUE, NoAction(<<>>), frames)
    ELSE LET value == slot_values[step.question]
             initial == initial_value[step.question]
         IN  IF step.skip_if_filled /\ value # initial
             THEN StepResult(FALSE, NoAction(<<>>), frames)
             ELSE StepResult(FALSE,
                      ActionPrediction(QUESTION_PREFIX \o step.question, 1, NoMetadata, <<>>),
                      frames)

run_question_step(step, frames, slot_values) ==
    IF step.question \notin SlotNames
    THEN StepResult(TRUE, NoAction(<<>>), frames)
    ELSE LET value == slot_values[step.question]
             initial == initial_value[step.question]
         IN  IF step.skip_if_filled /\ value # initial
             THEN StepResult(FALSE, NoAction(<<>>), frames)
             ELSE StepResult(FALSE,
                      ActionPrediction(QUESTION_PREFIX \o step.question, 1, NoMetadata,
                          IF value # initial
                          THEN <<SlotSet(step.question, initial)>> ELSE <<>>),
                      frames)

\* mutant of run_action_step: the action is named with confidence 0
run_action_step_unsure(step, frames) ==
    IF ~Truthy(step.action) THEN StepResult(TRUE, NoAction(<<>>), frames)
    ELSE StepResult(FALSE, ActionPrediction(step.action, 0, NoMetadata, <<>>), frames)

\* mutant of run_action_step: a step without an action name is run as well
run_action_step_unnamed(step, frames) ==
    StepResult(FALSE, ActionPrediction(step.action, 1, NoMetadata, <<>>), frames)

run_action_step(step, frames) ==
    IF ~Truthy(step.action) THEN StepResult(TRUE, NoAction(<<>>), frames)
    ELSE StepResult(FALSE, ActionPrediction(step.action, 1, NoMetadata, <<>>), frames)

\* mutant of run_link_step: the linked flow is pushed as a regular frame
run_link_step_as_regular(step, frames, loop_name) ==
    StepResult(FALSE,
               NoAction(IF Truthy(loop_name) THEN <<ActiveLoopNone>> ELSE <<>>),
               push(frames, FlowStackFrame(step.link, START_STEP, "REGULAR")))

\* mutant of run_link_step: the linked frame replaces the linking frame
\* (FlowStack.update in place of FlowStack.push)
run_link_step_update(step, frames, loop_name) ==
    StepResult(FALSE,
               NoAction(IF Truthy(loop_name) THEN <<ActiveLoopNone>> ELSE <<>>),
               push(pop(frames), FlowStackFrame(step.link, START_STEP, "LINK")))

run_link_step(step, frames, loop_name) ==
    StepResult(FALSE,
               NoAction(IF Truthy(loop_name) THEN <<ActiveLoopNone>> ELSE <<>>),
               push(frames, FlowStackFrame(step.link, START_STEP, "LINK")))

\* mutant of run_end_step: the type of the frame beneath is the one tested
run_end_step_tests_beneath(flow, frames) ==
    LET events == reset_scoped_slots(flow)
    IN  IF Len(frames) >= 2 /\ frames[Len(frames) - 1].frame_type = "INTERRUPT"
        THEN LET previous_flow == flow_by_id(frames[Len(frames) - 1].flow_id)
             IN  StepResult(FALSE,
                     ActionPrediction(ACTION_FLOW_CONTINUE_INERRUPTED_NAME, 1,
                         FlowNameMetadata(IF previous_flow # NoFlow
                                          THEN previous_flow.name ELSE NULL),
                         events),
                     frames)
        ELSE StepResult(FALSE, NoAction(events), frames)

\* mutant of run_end_step: the metadata names the flow that ended
run_end_step_names_ended(flow, frames) ==
    LET events == reset_scoped_slots(flow)
    IN  IF Len(frames) >= 2 /\ frames[Len(frames)].frame_type = "INTERRUPT"
        THEN LET previous_flow == flow_by_id(frames[Len(frames)].flow_id)
             IN  StepResult(FALSE,
                     ActionPrediction(ACTION_FLOW_CONTINUE_INERRUPTED_NAME, 1,
                         FlowNameMetadata(IF previous_flow # NoFlow
                                          THEN previous_flow.name ELSE NULL),
                         events),
                     frames)
        ELSE StepResult(FALSE, NoAction(events), frames)

run_end_step(flow, frames) ==
    LET events == reset_scoped_slots(flow)
    IN  IF Len(frames) >= 2 /\ frames[Len(frames)].frame_type = "INTERRUPT"
        THEN LET previous_flow == flow_by_id(frames[Len(frames) - 1].flow_id)
             IN  StepResult(FALSE,
                     ActionPrediction(ACTION_FLOW_CONTINUE_INERRUPTED_NAME, 1,
                         FlowNameMetadata(IF previous_flow # NoFlow
                                          THEN previous_flow.name ELSE NULL),
                         events),
                     frames)
        ELSE StepResult(FALSE, NoAction(events), frames)

\* _run_step on the flow handed to it, the step, the stack and the tracker
run_step(flow, step, frames, slot_values, loop_name) ==
    CASE step.type = "question" -> run_question_step(step, frames, slot_values)
      [] step.type = "action" -> run_action_step(step, frames)
      [] step.type = "link" -> run_link_step(step, frames, loop_name)
      [] step.type = "set_slots" ->
            StepResult(FALSE, NoAction(SlotSetEvents(step.slots, 1)), frames)
      [] step.type = "user_message" -> StepResult(FALSE, NoAction(<<>>), frames)
      [] step.type = "end" -> run_end_step(flow, frames)
      [] OTHER -> StepResult(TRUE, NoAction(<<>>), frames)

(***************************************************************************)
(* Trigger matching, the completion check and the override producers.      *)
(***************************************************************************)
RECURSIVE FirstTriggeredFlow(_, _, _, _)
FirstTriggeredFlow(flows, intent, entities, i) ==
    IF i > Len(flows) THEN NoFlow
    ELSE LET first_step == first_step_in_flow(flows[i])
         IN  IF first_step # NoStep /\ first_step.type = "user_message"
                /\ is_triggered(first_step, intent, entities)
             THEN flows[i]
             ELSE FirstTriggeredFlow(flows, intent, entities, i + 1)

\* mutant of find_startable_flow: the latest action is not looked at
find_startable_flow_any_turn(message, action_name) ==
    IF message = NoMessage THEN NoFlow
    ELSE FirstTriggeredFlow(underlying_flows, message.intent, message.entities, 1)

\* find_startable_flow on the tracker's latest message and latest action
find_startable_flow(message, action_name) ==
    IF message = NoMessage \/ action_name # ACTION_LISTEN_NAME THEN NoFlow
    ELSE FirstTriggeredFlow(underlying_flows, message.intent, message.entities, 1)

\* mutant of consider_flow_switch: a startable flow is not proposed
consider_flow_switch_never(message, action_name) == NoAction(<<>>)

\* consider_flow_switch
consider_flow_switch(message, action_name) ==
    LET new_flow == find_startable_flow(message, action_name)
    IN  IF new_flow # NoFlow
        THEN ActionPrediction(FLOW_PREFIX \o new_flow.id, 1, NoMetadata, <<>>)
        ELSE NoAction(<<>>)

\* RulePolicy._find_action_from_loop_happy_path: the action an active loop
\* asks for next (listen right after the loop ran, else the loop), or None
find_action_from_loop_happy_path(loop_name, action_name) ==
    IF loop_name = NULL THEN NULL
    ELSE IF action_name = loop_name THEN ACTION_LISTEN_NAME
    ELSE loop_name

\* mutant of wrap_up_previous_step: an active loop never holds the flow back
wrap_up_previous_step_never_waits(step, loop_name, action_name) == NoAction(<<>>)

\* _wrap_up_previous_step
wrap_up_previous_step(step, loop_name, action_name) ==
    IF step.type = "question"
    THEN LET active_loop == find_action_from_loop_happy_path(loop_name, action_name)
         IN  IF Truthy(active_loop) THEN ActionPrediction(active_loop, 1, NoMetadata, <<>>)
             ELSE NoAction(<<>>)
    ELSE NoAction(<<>>)

\* the commands a generated text can hold, one per line
SetSlotLine(name, value) == [cmd |-> "SetSlot", name |-> name, value |-> value]
StartFlowLine(name) == [cmd |-> "StartFlow", name |-> name, value |-> VNone]

RECURSIVE StartFlowNames(_, _)
StartFlowNames(lines, i) ==
    IF i > Len(lines) THEN <<>>
    ELSE IF lines[i].cmd = "SetSlot" THEN StartFlowNames(lines, i + 1)
    ELSE IF lines[i].cmd = "StartFlow" THEN <<lines[i].name>> \o StartFlowNames(lines, i + 1)
    ELSE StartFlowNames(lines, i + 1)

RECURSIVE SlotSetLines(_, _)
SlotSetLines(lines, i) ==
    IF i > Len(lines) THEN <<>>
    ELSE IF lines[i].cmd = "SetSlot"
         THEN <<SlotSet(lines[i].name, lines[i].value)>> \o SlotSetLines(lines, i + 1)
    ELSE SlotSetLines(lines, i + 1)

\* parse_action_list: the first flow to start, if any, with all the slot sets
parse_action_list(lines) ==
    LET start_flow_actions == StartFlowNames(lines, 1)
        slot_sets == SlotSetLines(lines, 1)
    IN  IF Len(start_flow_actions) > 0
        THEN ActionPrediction(FLOW_PREFIX \o start_flow_actions[1], 1, NoMetadata, slot_sets)
        ELSE ActionPrediction(NULL, 1, NoMetadata, slot_sets)

\* _llm_state_update on the generated text
llm_state_update(action_name, lines) ==
    IF action_name = ACTION_LISTEN_NAME THEN parse_action_list(lines)
    ELSE NoAction(<<>>)

\* the texts the generation service can answer with
GeneratedTexts ==
    { <<>>,
      <<SetSlotLine("age", VStr(<<3, 0>>))>>,
      <<SetSlotLine("age", VStr(<<1, 5>>)), StartFlowLine("main"), StartFlowLine("intr")>> }

\* _create_prediction_result: only a non-empty action name gets the score
create_prediction_result(action_name, score, events, metadata) ==
    [action_name |-> IF Truthy(action_name) THEN action_name ELSE NULL,
     score |-> IF Truthy(action_name) THEN score ELSE 0,
     events |-> events, metadata |-> metadata]

NoPrediction == create_prediction_result(NULL, 0, <<>>, NoMetadata)

(***************************************************************************)
(* The state: the tracker, the position in the prediction cycle, the       *)
(* locals of the cycle and the prediction handed back to the caller.       *)
(***************************************************************************)
VARIABLES
    stack_slot,          \* tracker: the persisted flow stack, a list of frame dicts
    slots,               \* tracker: slot name -> value
    latest_message,      \* tracker: the latest user message
    latest_action_name,  \* tracker: the latest action
    active_loop_name,    \* tracker: the active loop, or None
    pc,                  \* "await_user", "ready", "loop", "persist", "returned", "failed";
                         \* "resolve", "resolved", "stack", "raced" where a part runs on its own
    flow_stack,          \* FlowExecutor.flow_stack.frames
    predicted_action,    \* _select_next_action: predicted_action
    gathered_events,     \* _select_next_action: gathered_events
    current_flow,        \* _select_next_action: id of current_flow
    current_step,        \* _select_next_action: the step run by the latest iteration
    frame,               \* _select_next_action: the frame popped by the latest iteration
    override,            \* predict_action_probabilities: the action a collaborator supplied
    collected_events,    \* predict_action_probabilities: collected_events
    returned_by,         \* the return statement that ended the cycle
    prediction,          \* the PolicyPrediction handed to the caller
    current,             \* _select_next_step_id: the step to resolve from
    next_id,             \* _select_next_step_id: what it returned
    call,                \* the latest call of a FlowStack method on its own
    parked               \* the result of a cycle whose caller has yet to apply it

vars ==
    <<stack_slot, slots, latest_message, latest_action_name, active_loop_name, pc,
      flow_stack, predicted_action, gathered_events, current_flow, current_step,
      frame, override, collected_events, returned_by, prediction, current, next_id,
      call, parked>>

\* the argument and the result of a call of _select_next_step_id on its own
resolver_vars == <<current, next_id>>

\* a cycle's result held back by its caller while another cycle runs
race_vars == <<parked>>

Parked(phase, events, action_name, rehydrated, advanced, overwritten) ==
    [phase |-> phase, events |-> events, action_name |-> action_name,
     rehydrated |-> rehydrated, advanced |-> advanced, overwritten |-> overwritten]

\* no result is held back
NoParked == Parked("none", <<>>, NULL, <<>>, <<>>, <<>>)

\* a call of a FlowStack method: its arguments, whether it raised, what it returned
stack_vars == <<call>>

FlowStackCall(op, frame_arg, id_arg, err, result) ==
    [op |-> op, frame |-> frame_arg, updated_id |-> id_arg, err |-> err, result |-> result]

\* no FlowStack method has been called on its own
NoCall == FlowStackCall(NULL, NoFrame, NULL, FALSE, NoFrame)

\* _select_next_step_id has not returned
NotResolved == [err |-> FALSE, id |-> "?"]

tracker_vars == <<stack_slot, slots, latest_message, latest_action_name, active_loop_name>>

loop_vars == <<predicted_action, gathered_events, current_flow, current_step, frame>>

\* FlowStack.from_tracker
from_tracker == FlowStack_from_dict(stack_slot)

\* FlowExecutor.from_tracker has not run, or its locals are gone
NoCycle ==
    /\ flow_stack = <<>>
    /\ predicted_action = NoAction(<<>>)
    /\ gathered_events = <<>>
    /\ current_flow = NULL
    /\ current_step = NoStep
    /\ frame = NoFrame
    /\ override = NULL
    /\ collected_events = <<>>
    /\ returned_by = NULL
    /\ prediction = NoPrediction

Init ==
    /\ stack_slot = <<>>
    /\ slots = initial_value
    /\ latest_message = NoMessage
    /\ latest_action_name = ACTION_LISTEN_NAME
    /\ active_loop_name = NULL
    /\ pc = "ready"
    /\ NoCycle
    /\ current = NoStep
    /\ next_id = NotResolved
    /\ call = NoCall
    /\ parked = NoParked

(***************************************************************************)
(* The user: a message with its classified intent and entities, which may  *)
(* fill a slot.                                                            *)
(***************************************************************************)
StartsFlow(message) ==
    FirstTriggeredFlow(underlying_flows, message.intent, message.entities, 1) # NoFlow

UserMessage ==
    /\ UNCHANGED <<resolver_vars, stack_vars, race_vars>>
    /\ pc = "await_user"
    /\ \E message \in Messages :
          /\ StartsFlow(message) => Len(stack_slot) < MaxDepth
          /\ latest_message' = message
    /\ \/ UNCHANGED slots
       \/ \E fill \in SlotFills : slots' = [slots EXCEPT ![fill.key] = fill.value]
    /\ pc' = "ready"
    /\ UNCHANGED <<stack_slot, latest_action_name, active_loop_name, flow_stack,
                   override, collected_events, returned_by, prediction>>
    /\ UNCHANGED loop_vars

(***************************************************************************)
(* predict_action_probabilities and advance_flows up to the decision loop. *)
(***************************************************************************)
\* the texts the generation service may answer with in this state
TextsNow ==
    {text \in GeneratedTexts : Len(StartFlowNames(text, 1)) > 0 => Len(stack_slot) < MaxDepth}

\* mutant of is_override: the supplied action does not end the cycle
is_override_ignored(action_name) == FALSE

\* "if predicted_action is not None" / "if prediction.action_name is not None"
is_override(action_name) == action_name # NULL

Return(by, result) ==
    /\ pc' = "returned"
    /\ returned_by' = by
    /\ prediction' = result

\* the sensitive topic detector flags the latest message
PredictDetector ==
    /\ UNCHANGED <<resolver_vars, stack_vars, race_vars>>
    /\ pc = "ready"
    /\ latest_action_name = ACTION_LISTEN_NAME
    /\ latest_message # NoMessage
    /\ is_override(SENSITIVE_ACTION)
    /\ override' = SENSITIVE_ACTION
    /\ Return("detector", create_prediction_result(SENSITIVE_ACTION, 1, <<>>, NoMetadata))
    /\ UNCHANGED <<flow_stack, collected_events>>
    /\ UNCHANGED tracker_vars
    /\ UNCHANGED loop_vars

\* the generated text names a flow to start
PredictLlm ==
    /\ UNCHANGED <<resolver_vars, stack_vars, race_vars>>
    /\ pc = "ready"
    /\ \E text \in TextsNow :
          LET llm == llm_state_update(latest_action_name, text)
          IN  /\ is_override(llm.action_name)
              /\ override' = llm.action_name
              /\ Return("llm", create_prediction_result(llm.action_name, llm.score,
                                                        llm.events, llm.metadata))
    /\ flow_stack' = from_tracker
    /\ UNCHANGED collected_events
    /\ UNCHANGED tracker_vars
    /\ UNCHANGED loop_vars

\* advance_flows: a flow can be started
FlowSwitch ==
    /\ UNCHANGED <<resolver_vars, stack_vars, race_vars>>
    /\ pc = "ready"
    /\ \E text \in TextsNow :
          LET llm == llm_state_update(latest_action_name, text)
              switch == consider_flow_switch(latest_message, latest_action_name)
          IN  /\ ~is_override(llm.action_name)
              /\ override' = llm.action_name
              /\ Truthy(switch.action_name)
              /\ collected_events' = llm.events \o switch.events
              /\ Return("switch", create_prediction_result(switch.action_name, switch.score,
                                      llm.events \o switch.events, switch.metadata))
    /\ flow_stack' = from_tracker
    /\ UNCHANGED tracker_vars
    /\ UNCHANGED loop_vars

\* mutant of NothingToDo: with an empty stack listen is proposed
NothingToDo_listens ==
    /\ UNCHANGED <<resolver_vars, stack_vars, race_vars>>
    /\ pc = "ready"
    /\ \E text \in TextsNow :
          LET llm == llm_state_update(latest_action_name, text)
              switch == consider_flow_switch(latest_message, latest_action_name)
          IN  /\ ~is_override(llm.action_name)
              /\ override' = llm.action_name
              /\ ~Truthy(switch.action_name)
              /\ is_empty(from_tracker)
              /\ collected_events' = llm.events
              /\ Return("empty", create_prediction_result(ACTION_LISTEN_NAME, 1, llm.events,
                                                          NoMetadata))
    /\ flow_stack' = from_tracker
    /\ UNCHANGED tracker_vars
    /\ UNCHANGED loop_vars

\* advance_flows: no flow to start and no flow on the stack
NothingToDo ==
    /\ UNCHANGED <<resolver_vars, stack_vars, race_vars>>
    /\ pc = "ready"
    /\ \E text \in TextsNow :
          LET llm == llm_state_update(latest_action_name, text)
              switch == consider_flow_switch(latest_message, latest_action_name)
          IN  /\ ~is_override(llm.action_name)
              /\ override' = llm.action_name
              /\ ~Truthy(switch.action_name)
              /\ is_empty(from_tracker)
              /\ collected_events' = llm.events
              /\ Return("empty", create_prediction_result(NULL, 0, llm.events, NoMetadata))
    /\ flow_stack' = from_tracker
    /\ UNCHANGED tracker_vars
    /\ UNCHANGED loop_vars

\* advance_flows: no flow to start, the decision loop takes over
EnterLoop ==
    /\ UNCHANGED <<resolver_vars, stack_vars, race_vars>>
    /\ pc = "ready"
    /\ \E text \in TextsNow :
          LET llm == llm_state_update(latest_action_name, text)
              switch == consider_flow_switch(latest_message, latest_action_name)
          IN  /\ ~is_override(llm.action_name)
              /\ override' = llm.action_name
              /\ ~Truthy(switch.action_name)
              /\ ~is_empty(from_tracker)
              /\ collected_events' = llm.events
    /\ flow_stack' = from_tracker
    /\ pc' = "loop"
    /\ UNCHANGED <<returned_by, prediction>>
    /\ UNCHANGED tracker_vars
    /\ UNCHANGED loop_vars

(***************************************************************************)
(* _select_next_action: one action per outcome of a loop iteration.        *)
(***************************************************************************)
\* mutant of Fail: the error is swallowed and the loop's result so far is returned
Fail_swallowed ==
    /\ pc' = "persist"
    /\ UNCHANGED <<flow_stack, override, collected_events, returned_by, prediction>>
    /\ UNCHANGED loop_vars

Fail ==
    /\ pc' = "failed"
    /\ UNCHANGED <<flow_stack, override, collected_events, returned_by, prediction>>
    /\ UNCHANGED loop_vars

\* mutant of LoopListen: listen is predicted without the events gathered
LoopListen_drops_events ==
    /\ UNCHANGED <<resolver_vars, stack_vars, race_vars>>
    /\ pc = "loop"
    /\ top_flow(flow_stack) = NoFlow
    /\ predicted_action' = ActionPrediction(ACTION_LISTEN_NAME, 1, NoMetadata, <<>>)
    /\ current_step' = NoStep
    /\ frame' = NoFrame
    /\ pc' = "persist"
    /\ UNCHANGED <<flow_stack, gathered_events, current_flow, override,
                   collected_events, returned_by, prediction>>
    /\ UNCHANGED tracker_vars

\* there is no current flow: listen is predicted and the loop is left
LoopListen ==
    /\ UNCHANGED <<resolver_vars, stack_vars, race_vars>>
    /\ pc = "loop"
    /\ top_flow(flow_stack) = NoFlow
    /\ predicted_action' = ActionPrediction(ACTION_LISTEN_NAME, 1, NoMetadata, gathered_events)
    /\ current_step' = NoStep
    /\ frame' = NoFrame
    /\ pc' = "persist"
    /\ UNCHANGED <<flow_stack, gathered_events, current_flow, override,
                   collected_events, returned_by, prediction>>
    /\ UNCHANGED tracker_vars

\* the current flow is set, but there is no current step
LoopNoStep ==
    /\ UNCHANGED <<resolver_vars, stack_vars, race_vars>>
    /\ pc = "loop"
    /\ top_flow(flow_stack) # NoFlow
    /\ top_flow_step(flow_stack) = NoStep
    /\ Fail
    /\ UNCHANGED tracker_vars

\* wrapping up the previous step predicts an action: the loop is left
LoopWrapUp ==
    /\ UNCHANGED <<resolver_vars, stack_vars, race_vars>>
    /\ pc = "loop"
    /\ top_flow(flow_stack) # NoFlow
    /\ top_flow_step(flow_stack) # NoStep
    /\ LET wrap == wrap_up_previous_step(top_flow_step(flow_stack), active_loop_name,
                                         latest_action_name)
       IN  /\ Truthy(wrap.action_name)
           /\ gathered_events' = gathered_events \o wrap.events
           /\ predicted_action' = [wrap EXCEPT !.events = gathered_events \o wrap.events]
    /\ current_step' = NoStep
    /\ frame' = NoFrame
    /\ pc' = "persist"
    /\ UNCHANGED <<flow_stack, current_flow, override,
                   collected_events, returned_by, prediction>>
    /\ UNCHANGED tracker_vars

\* mutant of step_after_pop: the interrupted flow is started over
step_after_pop_restart(popped, frames) ==
    IF popped.frame_type = "INTERRUPT" /\ top_flow(frames) # NoFlow
    THEN step_for_id(top_flow(frames), START_STEP)
    ELSE NoStep

\* the frame whose flow has no next step is popped; the step an interrupt
\* frame had suspended is the one to run again
\* mutant of step_after_pop: no step is run after a pop
step_after_pop_never(popped, frames) == NoStep

step_after_pop(popped, frames) ==
    IF popped.frame_type = "INTERRUPT" THEN top_flow_step(frames) ELSE NoStep

\* the rest of an iteration: resolve the next step, pop or advance, run it
\* mutant of LoopAdvance: the events gathered so far are applied to the slots read
LoopAdvance_applies_events ==
    /\ UNCHANGED <<resolver_vars, stack_vars, race_vars>>
    /\ pc = "loop"
    /\ top_flow(flow_stack) # NoFlow
    /\ top_flow_step(flow_stack) # NoStep
    /\ LET flow == top_flow(flow_stack)
           sets(k) == {i \in DOMAIN gathered_events :
                          gathered_events[i].type = "slot" /\ gathered_events[i].key = k}
           slots_so_far ==
               [k \in DOMAIN slots |->
                   IF sets(k) = {} THEN slots[k]
                   ELSE gathered_events[CHOOSE i \in sets(k) :
                                           \A j \in sets(k) : j <= i].value]
           previous_step == top_flow_step(flow_stack)
           wrap == wrap_up_previous_step(previous_step, active_loop_name, latest_action_name)
           next == select_next_step(slots_so_far, previous_step, flow.id)
           popped == IF next.step = NoStep THEN top(flow_stack) ELSE NoFrame
           frames1 == IF next.step = NoStep THEN pop(flow_stack) ELSE flow_stack
           step == IF next.step = NoStep THEN step_after_pop(popped, frames1) ELSE next.step
           frames2 == advance_top_flow(frames1, step.id)
           ran == run_step(flow, step, frames2, slots_so_far, active_loop_name)
       IN  /\ ~Truthy(wrap.action_name)
           /\ IF next.err \/ (step # NoStep /\ ran.err)
              THEN Fail
              ELSE /\ current_flow' = flow.id
                   /\ frame' = popped
                   /\ current_step' = step
                   /\ IF step # NoStep
                      THEN /\ flow_stack' = ran.frames
                           /\ gathered_events' =
                                  gathered_events \o wrap.events \o ran.prediction.events
                           /\ predicted_action' =
                                  [ran.prediction EXCEPT !.events =
                                      gathered_events \o wrap.events \o ran.prediction.events]
                           /\ pc' = IF ran.prediction.score = 0 THEN "loop" ELSE "persist"
                      ELSE /\ flow_stack' = frames1
                           /\ gathered_events' = gathered_events \o wrap.events
                           /\ predicted_action' = wrap
                           /\ pc' = "loop"
                   /\ UNCHANGED <<override, collected_events, returned_by, prediction>>
    /\ UNCHANGED tracker_vars

LoopAdvance ==
    /\ UNCHANGED <<resolver_vars, stack_vars, race_vars>>
    /\ pc = "loop"
    /\ top_flow(flow_stack) # NoFlow
    /\ top_flow_step(flow_stack) # NoStep
    /\ LET flow == top_flow(flow_stack)
           previous_step == top_flow_step(flow_stack)
           wrap == wrap_up_previous_step(previous_step, active_loop_name, latest_action_name)
           next == select_next_step(slots, previous_step, flow.id)
           popped == IF next.step = NoStep THEN top(flow_stack) ELSE NoFrame
           frames1 == IF next.step = NoStep THEN pop(flow_stack) ELSE flow_stack
           step == IF next.step = NoStep THEN step_after_pop(popped, frames1) ELSE next.step
           frames2 == advance_top_flow(frames1, step.id)
           ran == run_step(flow, step, frames2, slots, active_loop_name)
       IN  /\ ~Truthy(wrap.action_name)
           /\ IF next.err \/ (step # NoStep /\ ran.err)
              THEN Fail
              ELSE /\ current_flow' = flow.id
                   /\ frame' = popped
                   /\ current_step' = step
                   /\ IF step # NoStep
                      THEN /\ flow_stack' = ran.frames
                           /\ gathered_events' =
                                  gathered_events \o wrap.events \o ran.prediction.events
                           /\ predicted_action' =
                                  [ran.prediction EXCEPT !.events =
                                      gathered_events \o wrap.events \o ran.prediction.events]
                           /\ pc' = IF ran.prediction.score = 0 THEN "loop" ELSE "persist"
                      ELSE /\ flow_stack' = frames1
                           /\ gathered_events' = gathered_events \o wrap.events
                           /\ predicted_action' = wrap
                           /\ pc' = "loop"
                   /\ UNCHANGED <<override, collected_events, returned_by, prediction>>
    /\ UNCHANGED tracker_vars

(***************************************************************************)
(* The end of advance_flows and of predict_action_probabilities.           *)
(***************************************************************************)
\* mutant of stack_changed: only the number of frames is compared
stack_changed_by_length(rehydrated, frames) == Len(rehydrated) # Len(frames)

\* "FlowStack.from_tracker(tracker).as_dict() != self.flow_stack.as_dict()"
stack_changed(rehydrated, frames) == as_dict(rehydrated) # as_dict(frames)

\* the prediction of the loop, with the stack to persist when it changed
\* mutant of with_persisted_stack: the stack is persisted without its top frame
with_persisted_stack_beneath_top(action, rehydrated, frames) ==
    IF stack_changed(rehydrated, frames)
    THEN [action EXCEPT !.events = Append(action.events, StackSlotSet(as_dict(pop(frames))))]
    ELSE action

with_persisted_stack(action, rehydrated, frames) ==
    IF stack_changed(rehydrated, frames)
    THEN [action EXCEPT !.events = Append(action.events, StackSlotSet(as_dict(frames)))]
    ELSE action

Persist ==
    /\ UNCHANGED <<resolver_vars, stack_vars, race_vars>>
    /\ pc = "persist"
    /\ LET result == with_persisted_stack(predicted_action, from_tracker, flow_stack)
       IN  /\ collected_events' = collected_events \o result.events
           /\ Return("loop", create_prediction_result(result.action_name, result.score,
                                 collected_events \o result.events, result.metadata))
    /\ UNCHANGED <<flow_stack, override>>
    /\ UNCHANGED tracker_vars
    /\ UNCHANGED loop_vars

(***************************************************************************)
(* The caller: it applies the events of the prediction to the tracker and  *)
(* runs the predicted action, or fails the turn when the cycle raised.     *)
(***************************************************************************)
TrackerState(stack, slot_values, loop_name) ==
    [stack |-> stack, slots |-> slot_values, loop |-> loop_name]

apply_event(event, state) ==
    CASE event.type = "slot" ->
            IF event.key \in SlotNames
            THEN [state EXCEPT !.slots[event.key] = event.value] ELSE state
      [] event.type = "stack" -> [state EXCEPT !.stack = event.stack]
      [] event.type = "active_loop" -> [state EXCEPT !.loop = NULL]
      [] OTHER -> state

RECURSIVE apply_events(_, _, _)
apply_events(events, i, state) ==
    IF i > Len(events) THEN state
    ELSE apply_events(events, i + 1, apply_event(events[i], state))

FlowIds == {underlying_flows[i].id : i \in DOMAIN underlying_flows}
\* the flow a "flow_<id>" action starts, or None
started_flow(action_name) ==
    IF \E id \in FlowIds : action_name = FLOW_PREFIX \o id
    THEN CHOOSE id \in FlowIds : action_name = FLOW_PREFIX \o id
    ELSE NULL

QuestionActions == {QUESTION_PREFIX \o s : s \in SlotNames}

\* the action that starts a flow pushes its frame: over active frames as an
\* interrupt or as a regular frame, on an empty stack as a regular frame
trigger_frame_types(stack) ==
    IF Len(stack) = 0 THEN {"regular"} ELSE {"interrupt", "regular"}

ForgetCycle ==
    /\ flow_stack' = <<>>
    /\ predicted_action' = NoAction(<<>>)
    /\ gathered_events' = <<>>
    /\ current_flow' = NULL
    /\ current_step' = NoStep
    /\ frame' = NoFrame
    /\ override' = NULL
    /\ collected_events' = <<>>
    /\ returned_by' = NULL
    /\ prediction' = NoPrediction

ApplyPrediction ==
    /\ UNCHANGED <<resolver_vars, stack_vars, race_vars>>
    /\ pc = "returned"
    /\ LET after == apply_events(prediction.events, 1,
                                 TrackerState(stack_slot, slots, active_loop_name))
           name == prediction.action_name
       IN  /\ slots' = after.slots
           /\ IF started_flow(name) # NULL
              THEN \E typ \in trigger_frame_types(after.stack) :
                      stack_slot' = Append(after.stack,
                          [flow_id |-> started_flow(name), step_id |-> START_STEP,
                           frame_type |-> typ])
              ELSE stack_slot' = after.stack
           /\ IF name \in QuestionActions
              THEN active_loop_name' \in {NULL, name}
              ELSE active_loop_name' = after.loop
           /\ latest_action_name' = IF name = NULL THEN ACTION_LISTEN_NAME ELSE name
           /\ pc' = IF name = NULL \/ name = ACTION_LISTEN_NAME THEN "await_user" ELSE "ready"
    /\ UNCHANGED latest_message
    /\ ForgetCycle

FailTurn ==
    /\ UNCHANGED <<resolver_vars, stack_vars, race_vars>>
    /\ pc = "failed"
    /\ latest_action_name' = ACTION_LISTEN_NAME
    /\ pc' = "await_user"
    /\ UNCHANGED <<stack_slot, slots, latest_message, active_loop_name>>
    /\ ForgetCycle

Next ==
    \/ UserMessage
    \/ PredictDetector
    \/ PredictLlm
    \/ FlowSwitch
    \/ NothingToDo
    \/ EnterLoop
    \/ LoopListen
    \/ LoopNoStep
    \/ LoopWrapUp
    \/ LoopAdvance
    \/ Persist
    \/ ApplyPrediction
    \/ FailTurn

Spec == Init /\ [][Next]_vars

(***************************************************************************)
(* The step resolver on its own: _select_next_step_id applied to a step    *)
(* with any list of up to MaxLinks outgoing links, under any slot value.   *)
(***************************************************************************)
\* the links a step may declare; each leads to a target of its own
ResolverLinks ==
    { StaticFlowLink("t_static"),
      IfFlowLink("age", "<", 18, "t_lt18"),
      IfFlowLink("age", ">", 10, "t_gt10"),
      IfFlowLink(NULL, "<", 0, "t_blank"),
      ElseFlowLink("t_else") }

ResolverLinkLists == UNION {[1..n -> ResolverLinks] : n \in 0..MaxLinks}

\* an authored step with the links, or the end step
ResolverSteps ==
    {ActionFlowStep("s", "a_s", links) : links \in ResolverLinkLists} \cup {EndFlowStep}

ResolverSlots == {initial_value} \cup {[age |-> fill.value] : fill \in SlotFills}

ResolverInit ==
    /\ stack_slot = <<>>
    /\ slots \in ResolverSlots
    /\ latest_message = NoMessage
    /\ latest_action_name = ACTION_LISTEN_NAME
    /\ active_loop_name = NULL
    /\ pc = "resolve"
    /\ NoCycle
    /\ current \in ResolverSteps
    /\ next_id = NotResolved
    /\ call = NoCall
    /\ parked = NoParked

\* next_id = self._select_next_step_id(current_step, domain, tracker)
Resolve ==
    /\ pc = "resolve"
    /\ next_id' = select_next_step_id(current, slots)
    /\ pc' = "resolved"
    /\ UNCHANGED <<current, flow_stack, override, collected_events, returned_by, prediction>>
    /\ UNCHANGED <<stack_vars, race_vars>>
    /\ UNCHANGED tracker_vars
    /\ UNCHANGED loop_vars

ResolverSpec == ResolverInit /\ [][Resolve]_vars

(***************************************************************************)
(* The flow stack on its own: the methods of FlowStack called in any order *)
(* on any stack of up to MaxDepth frames.                                  *)
(***************************************************************************)
StackFrames ==
    { FlowStackFrame("main", START_STEP, "REGULAR"),
      FlowStackFrame("main", "q_age", "REGULAR"),
      FlowStackFrame("child", START_STEP, "LINK"),
      FlowStackFrame("intr", "i_q", "INTERRUPT") }

StackInputs == UNION {[1..n -> StackFrames] : n \in 0..MaxDepth}

StackStepIds == {"q_age", END_STEP}

StackInit ==
    /\ stack_slot = <<>>
    /\ slots = initial_value
    /\ latest_message = NoMessage
    /\ latest_action_name = ACTION_LISTEN_NAME
    /\ active_loop_name = NULL
    /\ pc = "stack"
    /\ predicted_action = NoAction(<<>>)
    /\ gathered_events = <<>>
    /\ current_flow = NULL
    /\ current_step = NoStep
    /\ frame = NoFrame
    /\ override = NULL
    /\ collected_events = <<>>
    /\ returned_by = NULL
    /\ prediction = NoPrediction
    /\ flow_stack \in StackInputs
    /\ current = NoStep
    /\ next_id = NotResolved
    /\ call = NoCall
    /\ parked = NoParked

\* what a call of a FlowStack method leaves alone
StackCallFrame ==
    /\ pc = "stack"
    /\ pc' = pc
    /\ UNCHANGED <<override, collected_events, returned_by, prediction>>
    /\ UNCHANGED tracker_vars
    /\ UNCHANGED loop_vars
    /\ UNCHANGED <<resolver_vars, race_vars>>

\* flow_stack.push(frame)
StackPush ==
    /\ StackCallFrame
    /\ Len(flow_stack) < MaxDepth
    /\ \E pushed \in StackFrames :
          /\ flow_stack' = push(flow_stack, pushed)
          /\ call' = FlowStackCall("push", pushed, NULL, FALSE, NoFrame)

\* flow_stack.pop()
StackPop ==
    /\ StackCallFrame
    /\ LET popped == FlowStack_pop(flow_stack)
       IN  /\ flow_stack' = popped.frames
           /\ call' = FlowStackCall("pop", NoFrame, NULL, popped.err, popped.frame)

\* flow_stack.top()
StackTop ==
    /\ StackCallFrame
    /\ flow_stack' = flow_stack
    /\ call' = FlowStackCall("top", NoFrame, NULL, FALSE, top(flow_stack))

\* flow_stack.advance_top_flow(updated_id)
StackAdvance ==
    /\ StackCallFrame
    /\ \E updated_id \in StackStepIds :
          /\ flow_stack' = advance_top_flow(flow_stack, updated_id)
          /\ call' = FlowStackCall("advance_top_flow", NoFrame, updated_id, FALSE, NoFrame)

StackNext ==
    \/ StackPush
    \/ StackPop
    \/ StackTop
    \/ StackAdvance

StackSpec == StackInit /\ [][StackNext]_vars

(***************************************************************************)
(* Two cycles of one conversation that overlap: neither the policy nor the *)
(* executor holds a lock, so a caller may hold back the result of a cycle  *)
(* that advanced the stack while a cycle for the next message runs on the  *)
(* same tracker, and apply the result held back last.                      *)
(***************************************************************************)
\* the cycle that ran on the same tracker has had its stack persisted
RivalPersisted == parked.phase = "parked" /\ stack_slot # parked.rehydrated

\* the caller holds back the result of a cycle that advanced the stack; the
\* next message arrives on the tracker the cycle read
Park ==
    /\ UNCHANGED <<resolver_vars, stack_vars>>
    /\ pc = "returned"
    /\ returned_by = "loop"
    /\ parked.phase = "none"
    /\ stack_changed(from_tracker, flow_stack)
    /\ parked' = Parked("parked", prediction.events, prediction.action_name,
                        stack_slot, as_dict(flow_stack), <<>>)
    /\ \E message \in Messages :
          /\ StartsFlow(message) => Len(stack_slot) < MaxDepth
          /\ latest_message' = message
    /\ \/ UNCHANGED slots
       \/ \E fill \in SlotFills : slots' = [slots EXCEPT ![fill.key] = fill.value]
    /\ pc' = "ready"
    /\ UNCHANGED <<stack_slot, latest_action_name, active_loop_name>>
    /\ ForgetCycle

\* the cycles of the turn of that message, run one after the other until
\* one of them has its stack persisted
Rival ==
    /\ ~RivalPersisted
    /\ parked.phase = "parked" => pc # "await_user"
    /\ Next

\* the caller applies the result it held back
ApplyParked ==
    /\ UNCHANGED <<resolver_vars, stack_vars>>
    /\ RivalPersisted
    /\ pc \in {"ready", "await_user"}
    /\ LET after == apply_events(parked.events, 1,
                                 TrackerState(stack_slot, slots, active_loop_name))
           name == parked.action_name
       IN  /\ slots' = after.slots
           /\ IF started_flow(name) # NULL
              THEN \E typ \in trigger_frame_types(after.stack) :
                      stack_slot' = Append(after.stack,
                          [flow_id |-> started_flow(name), step_id |-> START_STEP,
                           frame_type |-> typ])
              ELSE stack_slot' = after.stack
           /\ IF name \in QuestionActions
              THEN active_loop_name' \in {NULL, name}
              ELSE active_loop_name' = after.loop
           /\ latest_action_name' = IF name = NULL THEN ACTION_LISTEN_NAME ELSE name
    /\ parked' = [parked EXCEPT !.phase = "applied", !.overwritten = stack_slot]
    /\ pc' = "raced"
    /\ UNCHANGED <<latest_message, flow_stack, override, collected_events, returned_by,
                   prediction>>
    /\ UNCHANGED loop_vars

RaceNext ==
    \/ Rival
    \/ Park
    \/ ApplyParked

RaceSpec == Init /\ [][RaceNext]_vars

(***************************************************************************)
(* Properties.                                                             *)
(***************************************************************************)
\* the cycle is inside or past the decision loop
InLoop == pc \in {"loop", "persist", "failed"} \/ (pc = "returned" /\ returned_by = "loop")

HasStackEvent(events) == \E i \in DOMAIN events : events[i].type = "stack"

\* no iteration of the decision loop has run in this cycle
LoopUntouched ==
    /\ predicted_action = NoAction(<<>>)
    /\ gathered_events = <<>>
    /\ current_flow = NULL
    /\ current_step = NoStep
    /\ frame = NoFrame

Qualifies(i, message) ==
    LET first_step == first_step_in_flow(underlying_flows[i])
    IN  /\ first_step # NoStep
        /\ first_step.type = "user_message"
        /\ is_triggered(first_step, message.intent, message.entities)

\* C2: find_startable_flow returns no flow unless there is a latest message
\* and the latest action is listen; otherwise it returns the first flow, in
\* enumeration order, whose first step is a user message step triggered by
\* the latest intent and entities, and no flow when none qualifies.
C2_FirstQualifyingFlow ==
    LET found == find_startable_flow(latest_message, latest_action_name)
        fresh == latest_message # NoMessage /\ latest_action_name = ACTION_LISTEN_NAME
        qualifying == {i \in DOMAIN underlying_flows : Qualifies(i, latest_message)}
    IN  /\ ~fresh => found = NoFlow
        /\ (fresh /\ qualifying = {}) => found = NoFlow
        /\ (fresh /\ qualifying # {}) =>
              \E i \in qualifying :
                  /\ found = underlying_flows[i]
                  /\ \A j \in qualifying : i <= j

\* C2 witness: two flows qualify for the fresh message and the earlier one
\* was proposed
C2_Witness ==
    /\ pc = "returned"
    /\ returned_by = "switch"
    /\ Cardinality({i \in DOMAIN underlying_flows : Qualifies(i, latest_message)}) >= 2
    /\ prediction.action_name = FLOW_PREFIX \o "broken"

\* C3: when the sensitive topic detector or the generated text supplies an
\* action, predict_action_probabilities returns that action as the cycle's
\* decision and advance_flows is skipped: the decision loop does not run, no
\* frame is pushed, popped or advanced and no stack-persist event is emitted.
C3_OverrideSkipsAdvance ==
    (pc \notin {"await_user", "ready"} /\ override # NULL) =>
        /\ pc = "returned"
        /\ returned_by \in {"detector", "llm"}
        /\ prediction.action_name = override
        /\ prediction.score = 1
        /\ ~HasStackEvent(prediction.events)
        /\ LoopUntouched
        /\ flow_stack \in {<<>>, from_tracker}

\* C3 witness: the generated text started a flow while frames were active
C3_Witness ==
    /\ pc = "returned"
    /\ returned_by = "llm"
    /\ override = FLOW_PREFIX \o "main"
    /\ Len(flow_stack) >= 1

\* the conversation's flow stack as a list of frame dicts: the executor's
\* stack while a cycle works on it, the tracker's slot otherwise
Stack == IF InLoop THEN as_dict(flow_stack) ELSE stack_slot

\* a step of the decision loop or of the caller, but not the caller
\* discarding the stack of a cycle that raised
KeepsCycle == pc # "failed"

\* C4: while an interrupt frame lies over a regular frame, no step changes
\* the regular frame: either the interrupt frame stays (the same flow, over
\* the unchanged regular frame) or it is popped and the regular frame is the
\* top frame with the step id it had when it was interrupted.
C4_InterruptResume ==
    [][KeepsCycle =>
        \A k \in 2..Len(Stack) :
            (Stack[k].frame_type = "interrupt" /\ Stack[k - 1].frame_type = "regular") =>
                \/ /\ Len(Stack') >= k
                   /\ Stack'[k].flow_id = Stack[k].flow_id
                   /\ Stack'[k].frame_type = "interrupt"
                   /\ Stack'[k - 1] = Stack[k - 1]
                \/ Stack' = SubSeq(Stack, 1, k - 1)]_vars

\* C4 witness: an interrupt frame that had reached its end was popped in the
\* loop and a regular frame, past its start step, is the top frame again
C4_Witness ==
    /\ pc \in {"loop", "persist"}
    /\ frame.frame_type = "INTERRUPT"
    /\ frame.step_id = END_STEP
    /\ Len(flow_stack) >= 1
    /\ top(flow_stack).frame_type = "REGULAR"
    /\ top(flow_stack).step_id = "q_age"

\* C5: the stack is used as a stack. A step leaves it alone, moves the top
\* frame (not yet at its end) to another step, pushes one frame at the start
\* step over the possibly moved top frame, or pops the top frame; the frames
\* beneath are never touched. So when a frame completes, the stack is the
\* stack its push found, and every push is undone by exactly one pop.
C5_StackDiscipline ==
    [][KeepsCycle =>
        LET n == Len(Stack)
            moved(old, new) ==
                /\ new.flow_id = old.flow_id
                /\ new.frame_type = old.frame_type
                /\ (new.step_id # old.step_id => old.step_id # END_STEP)
        IN  \/ Stack' = Stack
            \/ /\ n >= 1
               /\ Len(Stack') = n
               /\ SubSeq(Stack', 1, n - 1) = SubSeq(Stack, 1, n - 1)
               /\ moved(Stack[n], Stack'[n])
            \/ /\ Len(Stack') = n + 1
               /\ SubSeq(Stack', 1, n - 1) = SubSeq(Stack, 1, n - 1)
               /\ n >= 1 => moved(Stack[n], Stack'[n])
               /\ Stack'[n + 1].step_id = START_STEP
            \/ /\ n >= 1
               /\ Stack' = SubSeq(Stack, 1, n - 1)]_vars

\* C5 witness: the linked child flow ran to its end and its frame was popped;
\* the stack is again the one that ends with the linking frame at its link step
C5_Witness ==
    /\ pc = "loop"
    /\ frame = FlowStackFrame("child", END_STEP, "LINK")
    /\ top(flow_stack).flow_id = "main"
    /\ top(flow_stack).step_id = "sub"

\* the latest iteration of the loop ran an end step
RanEnd == pc \in {"loop", "persist"} /\ current_step.type = "end"

\* the stack the end step found: the stack of the iteration's start, without
\* the frame the iteration popped first
StackAtEnd == IF frame' # NoFrame THEN pop(flow_stack) ELSE flow_stack

\* C6 (as claimed): running an end step pops the current frame, the stack
\* after it is the stack before it without its top frame.
C6_EndPopsFrame ==
    [][(pc = "loop" /\ RanEnd') => flow_stack' = pop(StackAtEnd)]_vars

\* C7 (as claimed): the end step emits the resume action if and only if the
\* ended frame is an interrupt frame and at least two frames remain once it
\* is removed.
C7_ResumeIffTwoRemain ==
    RanEnd =>
        (predicted_action.action_name = ACTION_FLOW_CONTINUE_INERRUPTED_NAME
            <=> (top(flow_stack).frame_type = "INTERRUPT" /\ Len(flow_stack) - 1 >= 2))

\* C7 (amended): the end step emits the resume action with confidence 1.0 if
\* and only if the ended frame is an interrupt frame and the stack holds at
\* least two frames counting it (at least one remains beneath it); otherwise
\* it yields no action, with confidence 0.
C7_ResumeIffFrameBeneath ==
    RanEnd =>
        IF top(flow_stack).frame_type = "INTERRUPT" /\ Len(flow_stack) >= 2
        THEN /\ predicted_action.action_name = ACTION_FLOW_CONTINUE_INERRUPTED_NAME
             /\ predicted_action.score = 1
             /\ pc = "persist"
        ELSE /\ predicted_action.action_name = NULL
             /\ predicted_action.score = 0
             /\ pc = "loop"

\* C7 witness: an interrupt frame ended over exactly one frame and the
\* resume action was emitted
C7_Witness ==
    /\ RanEnd
    /\ Len(flow_stack) = 2
    /\ top(flow_stack).frame_type = "INTERRUPT"
    /\ predicted_action.action_name = ACTION_FLOW_CONTINUE_INERRUPTED_NAME

\* C8: when an interrupt frame reaches its end with a regular frame right
\* beneath it, the resume action is emitted, its metadata names the flow of
\* the frame beneath, and that frame is as the cycle found it.
C8_ResumeNamesFlowBeneath ==
    LET n == Len(flow_stack)
    IN  (RanEnd /\ n >= 2 /\ flow_stack[n].frame_type = "INTERRUPT"
            /\ flow_stack[n - 1].frame_type = "REGULAR") =>
            /\ predicted_action.action_name = ACTION_FLOW_CONTINUE_INERRUPTED_NAME
            /\ predicted_action.score = 1
            /\ flow_by_id(flow_stack[n - 1].flow_id) # NoFlow
            /\ predicted_action.metadata =
                   FlowNameMetadata(flow_by_id(flow_stack[n - 1].flow_id).name)
            /\ Len(from_tracker) >= n - 1
            /\ flow_stack[n - 1] = from_tracker[n - 1]

\* C8 witness: the interrupting flow ended over the main flow waiting at its
\* question
C8_Witness ==
    /\ RanEnd
    /\ Len(flow_stack) = 2
    /\ flow_stack[2] = FlowStackFrame("intr", END_STEP, "INTERRUPT")
    /\ flow_stack[1] = FlowStackFrame("main", "q_age", "REGULAR")
    /\ predicted_action.metadata = FlowNameMetadata("Main flow")

\* the reset events for the flow-scoped questions of a flow, in step order
ResetsOf(flow) ==
    LET asked == SelectSeq(flow.steps, LAMBDA st : st.type = "question" /\ st.scope = "flow")
    IN  [i \in DOMAIN asked |-> SlotSet(asked[i].question, initial_value[asked[i].question])]

\* C9 (as claimed): the events an end step emits are the resets of the
\* flow-scoped questions of the flow that owns the ended frame, and no others.
C9_ResetsOfOwningFlow ==
    [][(pc = "loop" /\ RanEnd') =>
          gathered_events' =
              gathered_events \o ResetsOf(flow_by_id(top(flow_stack').flow_id))]_vars

\* C10: when a cycle that ran the decision loop returns, its prediction holds
\* a stack-persist event if and only if the executor's stack, as a list of
\* frame dicts, differs from the list the tracker held at the cycle's start;
\* the event is then the last one, the only one, and carries the final stack.
C10_PersistIffChanged ==
    (pc = "returned" /\ returned_by = "loop") =>
        LET events == prediction.events
            persisted == {i \in DOMAIN events : events[i].type = "stack"}
        IN  /\ (persisted # {}) <=> (as_dict(flow_stack) # stack_slot)
            /\ persisted # {} =>
                  /\ persisted = {Len(events)}
                  /\ events[Len(events)] = StackSlotSet(as_dict(flow_stack))

\* C10 witness: a cycle moved the top frame to another step without pushing
\* or popping, and its last event persists the stack
C10_Witness ==
    /\ pc = "returned"
    /\ returned_by = "loop"
    /\ Len(flow_stack) = Len(stack_slot)
    /\ as_dict(flow_stack) # stack_slot
    /\ Len(prediction.events) >= 2
    /\ prediction.events[Len(prediction.events)].type = "stack"

\* the ids of the steps of a flow
StepIds(flow) == {flow.steps[i].id : i \in DOMAIN flow.steps}

\* a flow free of authoring errors: it has a start step, every link leads to
\* one of its steps or to the end, the links of a step cover all cases,
\* actions are named, questions ask for a slot of the domain and linked
\* flows exist and have a start step
WellAuthored(flow) ==
    /\ START_STEP \in StepIds(flow)
    /\ \A i \in DOMAIN flow.steps :
          LET st == flow.steps[i]
          IN  /\ \A j \in DOMAIN st.links : st.links[j].target \in StepIds(flow) \cup {END_STEP}
              /\ \/ Len(st.links) = 0
                 \/ Len(st.links) = 1 /\ st.links[1].type = "static"
                 \/ \E j \in DOMAIN st.links : st.links[j].type = "else"
              /\ st.type = "action" => Truthy(st.action)
              /\ st.type = "question" => st.question \in SlotNames
              /\ st.type = "link" =>
                     /\ flow_by_id(st.link) # NoFlow
                     /\ START_STEP \in StepIds(flow_by_id(st.link))

\* every frame of the stack is at a step of a well-authored flow
SoundStack(frames) ==
    \A i \in DOMAIN frames :
        LET flow == flow_by_id(frames[i].flow_id)
        IN  /\ flow # NoFlow
            /\ WellAuthored(flow)
            /\ frames[i].step_id \in StepIds(flow) \cup {END_STEP}

\* an upper bound on the iterations the loop still spends on a frame of the
\* flow at the step: one for the step itself, the longest way through the
\* steps it leads to, and the frames those push when they are link steps
RECURSIVE StepWeight(_, _)
StepWeight(flow, step_id) ==
    LET st == step_for_id(flow, step_id)
        targets == IF Len(st.links) > 0
                   THEN {st.links[j].target : j \in DOMAIN st.links}
                   ELSE IF step_id = END_STEP THEN {} ELSE {END_STEP}
        pushed(t) == LET ts == step_for_id(flow, t)
                     IN  IF ts # NoStep /\ ts.type = "link" /\ flow_by_id(ts.link) # NoFlow
                         THEN StepWeight(flow_by_id(ts.link), START_STEP) ELSE 0
        after == {StepWeight(flow, t) + pushed(t) : t \in targets} \cup {0}
    IN  IF st = NoStep THEN 0
        ELSE 1 + CHOOSE w \in after : \A v \in after : v <= w

RECURSIVE StackWeight(_)
StackWeight(frames) ==
    IF Len(frames) = 0 THEN 0
    ELSE StepWeight(flow_by_id(frames[Len(frames)].flow_id), frames[Len(frames)].step_id)
             + StackWeight(pop(frames))

\* C11: a run of the decision loop over frames of well-authored (and
\* acyclic) flows does not fail and ends with an action of nonzero
\* confidence: every iteration that stays in the loop has popped a frame or
\* moved the step pointer of the frame that was on top to another step, and
\* it has lowered the bound on the iterations still to come.
C11_LoopTerminates ==
    [][(pc = "loop" /\ SoundStack(flow_stack)) =>
          /\ pc' \in {"loop", "persist"}
          /\ SoundStack(flow_stack')
          /\ pc' = "persist" => predicted_action'.score > 0
          /\ pc' = "loop" =>
                /\ predicted_action'.score = 0
                /\ StackWeight(flow_stack') < StackWeight(flow_stack)
                /\ \/ frame' # NoFrame /\ Len(flow_stack') < Len(flow_stack)
                   \/ flow_stack'[Len(flow_stack)].step_id
                          # flow_stack[Len(flow_stack)].step_id]_vars

\* C11 witness: a loop that found two frames popped both and ended with listen
C11_Witness ==
    /\ pc = "persist"
    /\ Len(from_tracker) >= 2
    /\ SoundStack(from_tracker)
    /\ flow_stack = <<>>
    /\ predicted_action.action_name = ACTION_LISTEN_NAME
    /\ predicted_action.score = 1

\* the iteration the loop is about to run raises: the current step is
\* missing, no link is selected, the resolved id is no step of the flow, or
\* the step to run is invalid
IterationRaises ==
    /\ pc = "loop"
    /\ top_flow(flow_stack) # NoFlow
    /\ IF top_flow_step(flow_stack) = NoStep THEN TRUE
       ELSE LET flow == top_flow(flow_stack)
                previous_step == top_flow_step(flow_stack)
                wrap == wrap_up_previous_step(previous_step, active_loop_name,
                                              latest_action_name)
                next == select_next_step(slots, previous_step, flow.id)
                frames1 == IF next.step = NoStep THEN pop(flow_stack) ELSE flow_stack
                step == IF next.step = NoStep
                        THEN step_after_pop(top(flow_stack), frames1) ELSE next.step
                ran == run_step(flow, step, advance_top_flow(frames1, step.id), slots,
                                active_loop_name)
            IN  /\ ~Truthy(wrap.action_name)
                /\ next.err \/ (step # NoStep /\ ran.err)

\* C12: a fatal error raised in the decision loop ends the cycle without a
\* prediction: none of the events gathered before it, and no stack-persist
\* event, reaches the caller, and the tracker's stack, slots and active loop
\* stay as the cycle found them.
C12_AllOrNothing ==
    [][/\ IterationRaises => (pc' = "failed" /\ prediction' = NoPrediction)
       /\ pc = "failed" =>
             /\ prediction = NoPrediction
             /\ returned_by = NULL
             /\ prediction' = NoPrediction
             /\ stack_slot' = stack_slot
             /\ slots' = slots
             /\ active_loop_name' = active_loop_name]_vars

\* C12 witness: the cycle failed after it had changed its stack and gathered
\* events
C12_Witness ==
    /\ pc = "failed"
    /\ as_dict(flow_stack) # stack_slot
    /\ gathered_events # <<>>
    /\ prediction = NoPrediction

\* the resolver was given exactly one static link
SingleStatic == Len(current.links) = 1 /\ current.links[1].type = "static"

\* the positions of the if-links that carry a condition which holds
TrueIfs ==
    {i \in DOMAIN current.links :
        /\ current.links[i].type = "if"
        /\ current.links[i].slot # NULL
        /\ is_condition_satisfied(current.links[i], slots)}

\* the positions of the else-links
Elses == {i \in DOMAIN current.links : current.links[i].type = "else"}

First(positions) == CHOOSE i \in positions : \A j \in positions : i <= j

\* C13: a step with outgoing links of which none is selected (not a single
\* static link, no if-link whose condition holds, no else-link) makes the
\* resolver raise; it yields neither the implicit end nor "no next step".
C13_Exhaustiveness ==
    (pc = "resolved" /\ Len(current.links) > 0 /\ ~SingleStatic
        /\ TrueIfs = {} /\ Elses = {}) =>
        next_id = [err |-> TRUE, id |-> NULL]

\* C13 witness: the only link is an if-link whose condition is false
C13_Witness ==
    /\ pc = "resolved"
    /\ current.links = <<IfFlowLink("age", ">", 10, "t_gt10")>>
    /\ slots["age"] = VStr(<<5>>)
    /\ next_id.err

\* C14: when the links are not a single static link, the if-links are tried
\* in declaration order and the target is that of the first one whose
\* condition holds, also when a later one holds too.
C14_FirstMatchWins ==
    (pc = "resolved" /\ ~SingleStatic /\ TrueIfs # {}) =>
        next_id = [err |-> FALSE, id |-> current.links[First(TrueIfs)].target]

\* C14 witness: both conditions hold and the first declared link is taken
C14_Witness ==
    /\ pc = "resolved"
    /\ current.links = <<IfFlowLink("age", ">", 10, "t_gt10"),
                         IfFlowLink("age", "<", 18, "t_lt18")>>
    /\ slots["age"] = VStr(<<1, 5>>)
    /\ next_id.id = "t_gt10"

\* C15: an else-link's target is resolved only when no if-link's condition
\* holds, wherever the else-link is declared; when an if-link's condition
\* holds, its target is chosen over the else target.
C15_ElseOnlyWhenNoIfHolds ==
    (pc = "resolved" /\ ~SingleStatic /\ Elses # {}) =>
        IF TrueIfs = {}
        THEN next_id = [err |-> FALSE, id |-> current.links[First(Elses)].target]
        ELSE /\ ~next_id.err
             /\ next_id.id \in {current.links[i].target : i \in TrueIfs}
             /\ next_id.id \notin {current.links[i].target : i \in Elses}

\* C15 witness: the else-link is declared first and the if-link after it wins
C15_Witness ==
    /\ pc = "resolved"
    /\ current.links = <<ElseFlowLink("t_else"), IfFlowLink("age", "<", 18, "t_lt18")>>
    /\ slots["age"] = VStr(<<5>>)
    /\ next_id.id = "t_lt18"

\* C16: a step whose links are exactly one static link resolves to that
\* link's target under every slot value.
C16_StaticUnconditional ==
    (pc = "resolved" /\ SingleStatic) =>
        next_id = [err |-> FALSE, id |-> current.links[1].target]

\* C16 witness: the static link is followed while the slot holds a value
C16_Witness ==
    /\ pc = "resolved"
    /\ SingleStatic
    /\ slots["age"] = VStr(<<3, 0>>)
    /\ next_id.id = "t_static"

\* C17: a step without links resolves to the end step id when it is not the
\* end step and to "no next step" when it is; "no next step" is returned
\* for the end step only.
C17_ImplicitEnd ==
    pc = "resolved" =>
        /\ (Len(current.links) = 0 /\ current.id # END_STEP) =>
               next_id = [err |-> FALSE, id |-> END_STEP]
        /\ (Len(current.links) = 0 /\ current.id = END_STEP) =>
               next_id = [err |-> FALSE, id |-> NULL]
        /\ next_id = [err |-> FALSE, id |-> NULL] => current.id = END_STEP

\* C17 witness: a step without links, not the end step, resolved to the end
C17_Witness ==
    /\ pc = "resolved"
    /\ current.id = "s"
    /\ Len(current.links) = 0
    /\ next_id.id = END_STEP

\* the iteration the loop is about to run resolves, from the links of the
\* current step, an id that is not a step of the current flow
ResolvesDangling ==
    /\ pc = "loop"
    /\ top_flow(flow_stack) # NoFlow
    /\ IF top_flow_step(flow_stack) = NoStep THEN FALSE
       ELSE LET flow == top_flow(flow_stack)
                previous_step == top_flow_step(flow_stack)
                wrap == wrap_up_previous_step(previous_step, active_loop_name,
                                              latest_action_name)
                resolved == select_next_step_id(previous_step, slots)
            IN  /\ ~Truthy(wrap.action_name)
                /\ ~resolved.err
                /\ resolved.id # NULL
                /\ resolved.id \notin StepIds(flow) \cup {END_STEP}

\* C18: when the id resolved from the links of the current step is not a
\* step of the current flow, the cycle fails: the frame is neither popped
\* nor advanced and nothing is predicted; and whenever a step of the loop
\* changes a frame's step pointer, the new id is a step of the frame's flow.
C18_DanglingIsFatal ==
    [][/\ ResolvesDangling =>
             /\ pc' = "failed"
             /\ flow_stack' = flow_stack
             /\ prediction' = NoPrediction
       /\ pc = "loop" =>
             \A i \in DOMAIN flow_stack' :
                 (i <= Len(flow_stack) /\ flow_stack'[i].step_id # flow_stack[i].step_id) =>
                     flow_stack'[i].step_id
                         \in StepIds(flow_by_id(flow_stack'[i].flow_id)) \cup {END_STEP}]_vars

\* C18 witness: the first link of the broken flow's start step held and led
\* to a step the flow does not have
C18_Witness ==
    /\ pc = "failed"
    /\ top(flow_stack).flow_id = "broken"
    /\ top(flow_stack).step_id = START_STEP
    /\ slots["age"] = VStr(<<5>>)

AskedQuestion ==
    /\ pc \in {"loop", "persist"}
    /\ current_step.type = "question"
    /\ ~(current_step.skip_if_filled
           /\ slots[current_step.question] # initial_value[current_step.question])

\* C20 (as claimed): a question step that is not skipped emits the action
\* "ask_<slot>" with confidence 1.0.
C20_AsksWithAskPrefix ==
    AskedQuestion =>
        /\ predicted_action.action_name = "ask_" \o current_step.question
        /\ predicted_action.score = 1

\* C20 (amended): a question step that is not skipped emits the action
\* "question_<slot>" with confidence 1.0 and ends the loop, together with a
\* reset of the slot to its initial value if and only if the slot holds
\* another value.
C20_AsksQuestion ==
    [][(pc = "loop" /\ AskedQuestion') =>
          /\ predicted_action'.action_name = "question_" \o current_step'.question
          /\ predicted_action'.score = 1
          /\ pc' = "persist"
          /\ gathered_events' = gathered_events \o
                 (IF slots[current_step'.question] # initial_value[current_step'.question]
                  THEN <<SlotSet(current_step'.question,
                                 initial_value[current_step'.question])>>
                  ELSE <<>>)]_vars

\* C20 witness: the question for the slot "age" was asked while the slot
\* held 15, and the slot's reset is the last event gathered
C20_Witness ==
    /\ AskedQuestion
    /\ pc = "persist"
    /\ predicted_action.action_name = "question_age"
    /\ slots["age"] = VStr(<<1, 5>>)
    /\ Len(gathered_events) >= 1
    /\ gathered_events[Len(gathered_events)] = SlotSet("age", VNone)

\* the step the top frame points at, the one the completion check looks at
PreviousStep == top_flow_step(flow_stack)

\* an iteration starts with a current flow and a current step
AtStep == pc = "loop" /\ top_flow(flow_stack) # NoFlow /\ PreviousStep # NoStep

\* the iteration stopped at the completion check: no next step was resolved
\* and none was run
StoppedAtCheck ==
    /\ pc' = "persist"
    /\ current_step' = NoStep
    /\ frame' = NoFrame
    /\ flow_stack' = flow_stack

\* the iteration went on to resolve the next step (and ran it, popped a
\* frame, or failed doing so)
WentOnToResolve == pc' = "failed" \/ current_step' # NoStep \/ frame' # NoFrame

\* the latest iteration ran a question step and skipped it
SkippedQuestion ==
    /\ pc = "loop"
    /\ current_step.type = "question"
    /\ top(flow_stack).step_id = current_step.id

\* C21 (as claimed): a question step with skip_if_filled whose slot holds a
\* value other than its initial one yields no action and no events, and the
\* next iteration of the same cycle resolves its successor; any other
\* question step that is run is asked.
C21_SkipAdvancesPast ==
    [][/\ (pc = "loop" /\ pc' \in {"loop", "persist"} /\ current_step'.type = "question") =>
             LET q == current_step'
             IN  IF q.skip_if_filled /\ slots[q.question] # initial_value[q.question]
                 THEN /\ pc' = "loop"
                      /\ predicted_action'.action_name = NULL
                      /\ predicted_action'.score = 0
                      /\ gathered_events' = gathered_events
                 ELSE /\ pc' = "persist"
                      /\ predicted_action'.score = 1
       /\ SkippedQuestion => WentOnToResolve]_vars

\* the completion check of the spec: a question is complete when its slot
\* holds a value that is not null, any other step is complete
IsStepCompleted(step) == step.type = "question" => slots[step.question] # VNone

\* C22 (as claimed): for a complete step the completion check yields no
\* action and the iteration goes on to resolve the next step, whether or
\* not a loop is active.
C22_CompleteStepGoesOn ==
    [][(AtStep /\ IsStepCompleted(PreviousStep)) => WentOnToResolve]_vars

Ran(type) ==
    /\ pc = "loop"
    /\ pc' \in {"loop", "persist"}
    /\ current_step'.type = type

\* C24: a link step pushes exactly one frame, {flow_id = the link's target,
\* step_id = START, frame_type = Link}, over the linking frame, which points
\* at the link step; it yields no action, so that the loop's next iteration
\* works on the pushed frame; and it emits the loop deactivation event if
\* and only if a loop is active.
C24_LinkPushesFrame ==
    [][Ran("link") =>
          LET before == IF frame' # NoFrame THEN pop(flow_stack) ELSE flow_stack
              n == Len(flow_stack')
          IN  /\ n = Len(before) + 1
              /\ flow_stack'[n] = FlowStackFrame(current_step'.link, START_STEP, "LINK")
              /\ flow_stack'[n - 1] = [before[n - 1] EXCEPT !.step_id = current_step'.id]
              /\ SubSeq(flow_stack', 1, n - 2) = SubSeq(before, 1, n - 2)
              /\ predicted_action'.action_name = NULL
              /\ predicted_action'.score = 0
              /\ pc' = "loop"
              /\ gathered_events' = gathered_events \o
                     (IF active_loop_name # NULL THEN <<ActiveLoopNone>> ELSE <<>>)]_vars

\* C24 witness: a flow linked to another one while a question's loop was
\* active, over a frame that stays beneath
C24_Witness ==
    /\ pc = "loop"
    /\ current_step.type = "link"
    /\ active_loop_name # NULL
    /\ Len(flow_stack) = 3
    /\ flow_stack[3] = FlowStackFrame(current_step.link, START_STEP, "LINK")
    /\ flow_stack[2].step_id = current_step.id
    /\ flow_stack[2].frame_type # "LINK"
    /\ gathered_events = <<ActiveLoopNone>>

\* the iteration about to run resolves an action step without a name
ResolvesUnnamedAction ==
    /\ AtStep
    /\ LET wrap == wrap_up_previous_step(PreviousStep, active_loop_name, latest_action_name)
           next == select_next_step(slots, PreviousStep, top_flow(flow_stack).id)
       IN  /\ ~Truthy(wrap.action_name)
           /\ ~next.err
           /\ next.step.type = "action"
           /\ next.step.action = ""

\* C25: an action step emits exactly its declared action name with
\* confidence 1.0 and ends the loop with the top frame pointing at the
\* step; an action step without a name makes the cycle fail, and nothing
\* is predicted.
C25_ActionStep ==
    [][/\ Ran("action") =>
             /\ current_step'.action # ""
             /\ predicted_action'.action_name = current_step'.action
             /\ predicted_action'.score = 1
             /\ pc' = "persist"
             /\ top(flow_stack').step_id = current_step'.id
             /\ gathered_events' = gathered_events
       /\ ResolvesUnnamedAction =>
             /\ pc' = "failed"
             /\ prediction' = NoPrediction
             /\ predicted_action' = predicted_action]_vars

\* C25 witness: the main flow's action for minors was emitted
C25_Witness ==
    /\ pc = "persist"
    /\ current_step.type = "action"
    /\ predicted_action.action_name = "a_minor"
    /\ top(flow_stack) = FlowStackFrame("main", "minor", "REGULAR")

\* C26: a set-slots step emits one slot-set event per declared pair, in the
\* declared order, and no action; the events gathered in a cycle only grow
\* at their end, so the events of a step stand before those of every step
\* run after it, and the loop's prediction carries them all.
C26_SetSlotsStep ==
    [][/\ Ran("set_slots") =>
             /\ gathered_events' = gathered_events \o
                    [i \in DOMAIN current_step'.slots |->
                        SlotSet(current_step'.slots[i].key, current_step'.slots[i].value)]
             /\ predicted_action'.action_name = NULL
             /\ predicted_action'.score = 0
             /\ pc' = "loop"
       /\ (pc = "loop" /\ pc' \in {"loop", "persist"}) =>
             /\ Len(gathered_events') >= Len(gathered_events)
             /\ SubSeq(gathered_events', 1, Len(gathered_events)) = gathered_events
             /\ pc' = "persist" => predicted_action'.events = gathered_events']_vars

\* C26 witness: the loop's prediction carries the two events of the child
\* flow's set-slots step in the declared order, before the events of the
\* steps run after it
C26_Witness ==
    /\ pc = "persist"
    /\ Len(gathered_events) > 2
    /\ SubSeq(gathered_events, 1, 2) = <<SlotSet("age", VStr(<<3, 0>>)), SlotSet("age", VNone)>>
    /\ predicted_action.events = gathered_events

\* C27: without an override, without a flow to start and with an empty
\* rehydrated stack the cycle's result has no action name, confidence 0 and
\* no events of advance_flows; the decision loop is not entered and listen
\* is not proposed. The decision loop only runs on a rehydrated stack that
\* holds a frame.
C27_EmptyStackNoDecision ==
    /\ (pc = "returned" /\ returned_by = "empty") =>
          /\ is_empty(from_tracker)
          /\ find_startable_flow(latest_message, latest_action_name) = NoFlow
          /\ prediction.action_name = NULL
          /\ prediction.score = 0
          /\ prediction.events = collected_events
          /\ ~HasStackEvent(prediction.events)
          /\ LoopUntouched
    /\ (pc \in {"loop", "persist", "failed"}
            \/ (pc = "returned" /\ returned_by \in {"loop", "switch"})) =>
          (~is_empty(from_tracker)
              \/ find_startable_flow(latest_message, latest_action_name) # NoFlow)

\* C27 witness: a user message that starts no flow arrived while no flow
\* was active
C27_Witness ==
    /\ pc = "returned"
    /\ returned_by = "empty"
    /\ latest_message.intent = "i_other"
    /\ latest_action_name = ACTION_LISTEN_NAME
    /\ stack_slot = <<>>

\* C28: an iteration of the decision loop that finds the stack empty ends
\* the loop and proposes listen with confidence 1.0, carrying the events
\* gathered so far.
C28_EmptyStackListens ==
    [][(pc = "loop" /\ is_empty(flow_stack)) =>
          /\ pc' = "persist"
          /\ predicted_action' =
                 ActionPrediction(ACTION_LISTEN_NAME, 1, NoMetadata, gathered_events)
          /\ flow_stack' = flow_stack]_vars

\* C28 witness: the last frame was popped without an action, and listen is
\* proposed with the events the steps had emitted
C28_Witness ==
    /\ pc = "persist"
    /\ is_empty(flow_stack)
    /\ ~is_empty(from_tracker)
    /\ gathered_events # <<>>
    /\ predicted_action = ActionPrediction(ACTION_LISTEN_NAME, 1, NoMetadata, gathered_events)

\* a FlowStack method is called on its own
Calls(op) == pc = "stack" /\ call'.op = op

\* C29: pop() on an empty stack raises and leaves the stack empty, and on
\* another stack removes and returns the top frame; top() never raises,
\* leaves the stack alone and returns null on an empty stack and the top
\* frame otherwise; advance_top_flow(updated_id) changes only the step
\* pointer of the top frame, keeping its flow id, its frame type, the depth
\* and every frame beneath, and does nothing on an empty stack; push(frame)
\* appends the frame as the new top over the frames that were there.
C29_StackOperations ==
    [][/\ Calls("pop") =>
             IF flow_stack = <<>>
             THEN call'.err /\ flow_stack' = <<>>
             ELSE /\ ~call'.err
                  /\ call'.result = flow_stack[Len(flow_stack)]
                  /\ flow_stack' = SubSeq(flow_stack, 1, Len(flow_stack) - 1)
       /\ Calls("top") =>
             /\ ~call'.err
             /\ flow_stack' = flow_stack
             /\ call'.result = (IF flow_stack = <<>> THEN NoFrame
                                ELSE flow_stack[Len(flow_stack)])
       /\ Calls("advance_top_flow") =>
             /\ ~call'.err
             /\ Len(flow_stack') = Len(flow_stack)
             /\ \A i \in 1..Len(flow_stack) :
                   /\ flow_stack'[i].flow_id = flow_stack[i].flow_id
                   /\ flow_stack'[i].frame_type = flow_stack[i].frame_type
                   /\ flow_stack'[i].step_id =
                          (IF i = Len(flow_stack) THEN call'.updated_id
                           ELSE flow_stack[i].step_id)
       /\ Calls("push") =>
             /\ ~call'.err
             /\ flow_stack' = flow_stack \o <<call'.frame>>]_vars

\* C29 witness: pop() was called on an empty stack and raised
C29_Witness ==
    /\ pc = "stack"
    /\ call.op = "pop"
    /\ call.err
    /\ flow_stack = <<>>

\* C30: nothing serializes the cycles of a conversation. When the result of
\* a cycle is applied after a cycle that rehydrated the same stack had its
\* own stack persisted, the stack persisted in the end is the stack of the
\* cycle applied last, as it advanced it from the stack it rehydrated, and
\* nothing of the other cycle's stack is kept. As long as no result is held
\* back, the persisted stack only changes when a cycle's result is applied,
\* and a cycle that enters the decision loop rehydrates exactly that stack.
C30_LastWriterWins ==
    [][/\ (parked.phase = "parked" /\ parked'.phase = "applied") =>
             /\ stack_slot # parked.rehydrated
             /\ stack_slot' = parked.advanced
             /\ parked.advanced # parked.rehydrated
       /\ parked'.phase = "none" =>
             /\ stack_slot' # stack_slot => pc = "returned"
             /\ (pc = "ready" /\ pc' = "loop") =>
                    /\ as_dict(flow_stack') = stack_slot
                    /\ stack_slot' = stack_slot]_vars

\* C30 witness: a lost update. Two cycles rehydrated the same stack, each
\* advanced it in its own way, and the stack of the cycle applied last
\* replaced the stack of the other
C30_Witness ==
    /\ pc = "raced"
    /\ parked.phase = "applied"
    /\ parked.overwritten # parked.rehydrated
    /\ parked.advanced # parked.rehydrated
    /\ parked.overwritten # parked.advanced
    /\ stack_slot = parked.advanced

\* the iteration popped the top frame (the frame is frame')
Popped == pc = "loop" /\ pc' \in {"loop", "persist"} /\ frame' # NoFrame

\* the latest iteration popped a regular or a link frame and ran nothing
AfterPlainPop ==
    /\ pc = "loop"
    /\ frame # NoFrame
    /\ frame.frame_type # "INTERRUPT"
    /\ top_flow(flow_stack) # NoFlow
    /\ top_flow_step(flow_stack) # NoStep

\* C31: the iteration that pops an interrupt frame runs the step the
\* exposed frame points at once more, with that step's effect (a question
\* that is not skipped is asked, an action is emitted, a set-slots step
\* emits its events), and the exposed frame keeps pointing at it. The
\* iteration that pops a regular or a link frame runs no step, emits
\* nothing and predicts nothing, and the next iteration, when the
\* completion check lets it pass, runs the successor of the step the
\* exposed frame points at.
C31_InterruptPopRunsAgain ==
    [][/\ (Popped /\ frame'.frame_type = "INTERRUPT") =>
             LET exposed == pop(flow_stack)
                 again == top_flow_step(exposed)
             IN  /\ frame' = top(flow_stack)
                 /\ current_step' = again
                 /\ again # NoStep =>
                       /\ again.type # "link" =>
                             /\ Len(flow_stack') = Len(exposed)
                             /\ top(flow_stack') = top(exposed)
                       /\ (again.type = "question"
                               /\ ~(again.skip_if_filled
                                       /\ slots[again.question] # initial_value[again.question])) =>
                             /\ predicted_action'.action_name = "question_" \o again.question
                             /\ predicted_action'.score = 1
                             /\ pc' = "persist"
                       /\ again.type = "action" =>
                             /\ predicted_action'.action_name = again.action
                             /\ predicted_action'.score = 1
                             /\ pc' = "persist"
                       /\ again.type = "set_slots" =>
                             gathered_events' = gathered_events \o
                                 [i \in DOMAIN again.slots |->
                                     SlotSet(again.slots[i].key, again.slots[i].value)]
       /\ (Popped /\ frame'.frame_type # "INTERRUPT") =>
             /\ frame' = top(flow_stack)
             /\ current_step' = NoStep
             /\ flow_stack' = pop(flow_stack)
             /\ gathered_events' = gathered_events
             /\ predicted_action'.action_name = NULL
             /\ pc' = "loop"
       /\ (AfterPlainPop /\ pc' \in {"loop", "persist"} /\ current_step' # NoStep) =>
             LET exposed_step == top_flow_step(flow_stack)
                 flow_id == top_flow(flow_stack).id
             IN  IF frame' = NoFrame
                 THEN current_step' = select_next_step(slots, exposed_step, flow_id).step
                 ELSE select_next_step(slots, exposed_step, flow_id).step = NoStep]_vars

\* C31 witness: the interrupting flow ended, its frame was popped, and the
\* question the main flow had asked was asked again in the same iteration
C31_Witness ==
    /\ pc = "persist"
    /\ frame.frame_type = "INTERRUPT"
    /\ current_step.type = "question"
    /\ current_step.id = "q_age"
    /\ top(flow_stack) = FlowStackFrame("main", "q_age", "REGULAR")
    /\ predicted_action.action_name = "question_age"
    /\ predicted_action.score = 1

\* the iteration took the branch for "no current flow" and proposed listen
ProposedListen ==
    /\ pc = "loop"
    /\ top_flow(flow_stack) = NoFlow
    /\ pc' = "persist"
    /\ predicted_action'.action_name = ACTION_LISTEN_NAME

\* C32: the decision loop proposes listen for want of a current flow only
\* when the flow stack is empty: the stack of the cycle holds no frame
\* then, and no frame is persisted, also when a link step has pushed a
\* frame for a flow that the library does not hold.
C32_ListenOnlyWhenEmpty ==
    [][ProposedListen =>
          /\ is_empty(flow_stack')
          /\ stack_changed(from_tracker, flow_stack') => as_dict(flow_stack') = <<>>]_vars

\* the slot values after the events the cycle has gathered so far
SlotsSoFar ==
    apply_events(collected_events \o gathered_events, 1,
                 TrackerState(stack_slot, slots, active_loop_name)).slots

\* C33: a cycle leaves the tracker as it found it, and each iteration of
\* its loop reads the slots of the tracker: the step it runs is the one the
\* links of the previous step select under the tracker's slot values, a
\* question is skipped or asked according to the tracker's value, and the
\* slot-set events gathered earlier in the cycle are not applied.
C33_SlotsOfTheSnapshot ==
    [][/\ (pc \in {"ready", "loop", "persist"} /\ pc' # "await_user") =>
             UNCHANGED tracker_vars
       /\ (pc = "loop" /\ pc' \in {"loop", "persist"}
              /\ current_step' # NoStep /\ frame' = NoFrame) =>
             /\ current_step' =
                    select_next_step(slots, PreviousStep, top_flow(flow_stack).id).step
             /\ current_step'.type = "question" =>
                    (predicted_action'.action_name = NULL) =
                        (current_step'.skip_if_filled
                           /\ slots[current_step'.question]
                                  # initial_value[current_step'.question])]_vars

\* C33 witness: the set-slots step of the child flow set the slot to null,
\* and the conditional link after it held for the tracker's value, 30
C33_Witness ==
    /\ pc = "persist"
    /\ current_step.id = "c_old"
    /\ predicted_action.action_name = "a_old"
    /\ slots["age"] = VStr(<<3, 0>>)
    /\ SlotsSoFar["age"] = VNone
    /\ \E i \in DOMAIN gathered_events : gathered_events[i] = SlotSet("age", VNone)

\* C34: what advance_flows returns names an action with confidence 1.0 or
\* names none with confidence 0. While the decision loop runs nothing is
\* decided; the loop is only left with a named action of confidence 1.0 or
\* by a failure, and so is the cycle; a start of a flow is returned the same
\* way; the result without a decision is only returned when no flow could
\* be started and the rehydrated stack was empty.
C34_DecisionOrSentinel ==
    /\ pc = "loop" =>
          /\ predicted_action.action_name = NULL
          /\ predicted_action.score = 0
    /\ pc = "persist" =>
          /\ predicted_action.action_name # NULL
          /\ predicted_action.action_name # ""
          /\ predicted_action.score = 1
    /\ (pc = "returned" /\ returned_by \in {"loop", "switch"}) =>
          /\ prediction.action_name # NULL
          /\ prediction.score = 1
    /\ (pc = "returned" /\ returned_by \in {"loop", "switch", "empty"}
           /\ prediction.action_name = NULL) =>
          /\ returned_by = "empty"
          /\ prediction.score = 0
          /\ is_empty(from_tracker)
          /\ find_startable_flow(latest_message, latest_action_name) = NoFlow
    /\ pc \in {"loop", "persist"} => ~is_empty(from_tracker)

\* C34 witness: the loop was entered, ran the main flow up to its question
\* and the cycle returned the question's action with confidence 1.0
C34_Witness ==
    /\ pc = "returned"
    /\ returned_by = "loop"
    /\ ~is_empty(flow_stack)
    /\ current_step.type = "question"
    /\ prediction.action_name = "question_age"
    /\ prediction.score = 1

====
